---- MODULE Spec2Model ----
(***************************************************************************)
(* Model of the task-resolution pipeline of lunar-wallpaper's Claude Flow  *)
(* v3.0: HiveMindOrchestrator.resolveIssue (src/core/hive-mind-            *)
(* orchestrator.js) driving HiveMindEngine.spawnHiveMind (src/core/        *)
(* hive-mind-engine.js).                                                   *)
(*                                                                         *)
(* Several resolveIssue calls run on one JavaScript event loop.  A call    *)
(* executes without interruption until it awaits; `running` names the call *)
(* that is between two awaits of one synchronous segment (0: none).        *)
(* Scores are in hundredths (0.8 is 80).                                   *)
(***************************************************************************)
EXTENDS Integers, FiniteSets, Sequences, TLC

\* ---- bounds of the model ------------------------------------------------
NumCalls == 2
MaxLimit == 2
NumSessions == 2
MaxFiles == 2

Calls == 1..NumCalls

\* result.quality.score of a session's best candidate: the mean of the seven
\* dimensions of QualityAssessmentNetwork.assess, 0.85 .. 0.96 for a generated
\* solution (its random terms are not observed before publishToGitHub reads
\* the score, so the value is drawn there); sampled at both ends
ScoreValues == {85, 96}

VARIABLES
    maxConcurrentSessions, \* this.options.maxConcurrentSessions
    autoCreatePR,          \* this.options.autoCreatePR
    running,               \* call executing a synchronous segment, 0 if none
    pc,                    \* position of each resolveIssue call
    orchestrationId,       \* const orchestrationId of each call (0: not yet)
    sessionId,             \* const sessionId of the call's engine session
    status,                \* orchestration session.status ("none": no session)
    engineStatus,          \* engine session.status ("none": no session)
    error,                 \* the error caught by resolveIssue ("none": none)
    outcome,               \* how the call settled: "none", "success", "thrown"
    fetchCalls,            \* invocations of fetchCompleteIssueData per call
    publishCalls,          \* invocations of publishToGitHub per call
    reportCalls,           \* invocations of reportErrorToGitHub per call
    persistCalls,          \* invocations of persistResults per call
    githubResult,          \* githubResult returned by publishToGitHub
    activeSessions,        \* key set of this.activeSessions
    engines,               \* key set of this.engines
    results,               \* orchestrator-data/results.json
    sessionsFile           \* hive-mind-memory/sessions.json

\* the variables of the orchestrator and of the engine sessions it drives
orchVars == <<maxConcurrentSessions, autoCreatePR, running, pc, orchestrationId,
              sessionId, status, engineStatus, error, outcome, fetchCalls,
              publishCalls, reportCalls, persistCalls, githubResult,
              activeSessions, engines, results>>

VARIABLES
    learningEnabled,       \* this.options.learningEnabled
    enginePc,              \* position of each engine session (MemorySpec)
    statePatterns,         \* this.state.patterns of each session's engine
    stateKnowledge,        \* this.state.knowledge of each session's engine
    stateAgents,           \* this.state.agents of each session's engine
    sessionAgents,         \* session.agents of each engine session
    patternsFile,          \* hive-mind-memory/patterns.json (its keys)
    knowledgeFile,         \* hive-mind-memory/knowledge.json (its keys)
    learnedPatterns,       \* pattern ids some learning stage has persisted
    learnedKnowledge,      \* knowledge ids some learning stage has persisted
    overlapped             \* some session started while another was running

memoryVars == <<learningEnabled, enginePc, statePatterns, stateKnowledge,
                stateAgents, sessionAgents, patternsFile, knowledgeFile,
                learnedPatterns, learnedKnowledge, overlapped>>

VARIABLES
    processedResult,       \* the processedResult handed to publishToGitHub
    published,             \* what that publishToGitHub call did (<<>>: not yet)
    issue,                 \* the task handed to performDeepAnalysis
    analysis               \* the Analysis of each run of performDeepAnalysis
                           \* (<<>>: not yet run)

VARIABLES
    strategyContext,       \* the context handed to generateStrategy
    strategy,              \* the strategy it returned (<<>>: not yet)
    matchIssue,            \* the task handed to matchPatterns
    patternStore,          \* state.patterns of the engine that runs it
    matchResult,           \* what matchPatterns returned (<<>>: not yet)
    generateContext,       \* the context handed to generate
    sessionSolutions,      \* session.solutions (<<>>: not yet synthesized)
    validation,            \* the result of performQualityAssessment
    finalOutput,           \* the result of generateFinalOutput
    complexityResult,      \* the result of assessComplexity (<<>>: not yet)
    priorityResult         \* the result of assessPriority (<<>>: not yet)

VARIABLES
    swarmSize,             \* the number of agents handed to coordinateAgentSwarm
    swarmDomain,           \* analysis.domain of the coordinated session
    workerPc,              \* executeAgentAnalysis of each agent
    coordPc,               \* where coordinateAgentSwarm is
    phases,                \* coordination.phases
    discussions,           \* the discussions of facilitateAgentCollaboration
    consensusResult,       \* what buildAgentConsensus returned (<<>>: not yet)
    swarmStatus,           \* session.status of the coordinated session
    actionsOutput,         \* the output of outputResults (<<>>: not yet)
    sessionLearnings       \* what extract returned (<<>>: nothing)

publishVars == <<processedResult, published>>

outputVars == <<actionsOutput, sessionLearnings>>

coordVars == <<swarmSize, swarmDomain, workerPc, coordPc, phases, discussions,
               consensusResult, swarmStatus, outputVars>>

stageVars == <<strategyContext, strategy, matchIssue, patternStore,
               matchResult, generateContext, sessionSolutions, validation,
               finalOutput, complexityResult, priorityResult>>

analysisVars == <<issue, analysis, stageVars, coordVars>>

vars == <<orchVars, sessionsFile, memoryVars, publishVars, analysisVars>>

\* ---- pure helpers ---------------------------------------------------------

\* crypto.randomUUID(): version-4 UUIDs are taken to be collision free; the
\* n-th value drawn on behalf of call c is a value no other draw yields
randomUUID(c, n) == 2 * (c - 1) + n

\* a capacity check that is off by one
CanAccept_OffByOne(active, max) == Cardinality(active) <= max

\* line 119: the capacity check of resolveIssue
CanAccept(active, max) == Cardinality(active) < max

\* the status each pipeline stage of spawnHiveMind assigns when the previous
\* stage has returned (lines 144-169)
StageAfter ==
    [initializing |-> "analyzing",
     analyzing    |-> "spawning",
     spawning     |-> "coordinating",
     coordinating |-> "synthesizing",
     synthesizing |-> "validating",
     validating   |-> "learning",
     learning     |-> "completed"]

AwaitedStages == {"analyzing", "spawning", "coordinating", "synthesizing",
                  "validating", "learning"}

\* QualityAssessmentNetwork.assessCompleteness for a generated solution:
\* 0.7 plus 0.1 for each of code, tests, documentation, capped at 1.0
assessCompleteness(code, tests, documentation) ==
    LET score == 70 + (IF code THEN 10 ELSE 0) + (IF tests THEN 10 ELSE 0)
                    + (IF documentation THEN 10 ELSE 0)
    IN  IF score < 100 THEN score ELSE 100

\* files of a generated solution (generateSingleSolution: three paths)
SolutionFileCount == 3

\* a gate that opens when any one of its three conditions holds
shouldCreatePR_AnyOf(score, completeness, files) ==
    score > 80 \/ completeness > 90 \/ files > 0

\* shouldCreatePR
shouldCreatePR(score, completeness, files) ==
    score > 80 /\ completeness > 90 /\ files > 0

NoGithubResult ==
    [comments |-> 0, labels |-> FALSE, pullRequest |-> "null", error |-> FALSE,
     thrown |-> FALSE]

\* publishToGitHub without its try/catch: a failed comment or pull request
\* raises out of it
publishToGitHub_NoCatch(commentOk, labelsOk, doPR, prOutcome) ==
    IF ~commentOk \/ (doPR /\ prOutcome = "error")
    THEN [comments |-> 0, labels |-> FALSE, pullRequest |-> "null",
          error |-> TRUE, thrown |-> TRUE]
    ELSE [comments |-> 1, labels |-> labelsOk,
          pullRequest |-> IF ~doPR THEN "null"
                          ELSE IF prOutcome = "created" THEN "created"
                          ELSE "branch_exists",
          error |-> FALSE, thrown |-> FALSE]

\* publishToGitHub: the three outbound calls in order inside one try/catch.
\* commentOk: createAnalysisComment succeeded; labelsOk: addLabels succeeded
\* (its failure is swallowed by addLabelsToIssue); doPR: the gate of line 384;
\* prOutcome: "created", "conflict" (HTTP 422) or "error".
\* `thrown` tells whether publishToGitHub itself raises.
publishToGitHub(commentOk, labelsOk, doPR, prOutcome) ==
    IF ~commentOk
    THEN [NoGithubResult EXCEPT !.error = TRUE]
    ELSE IF ~doPR
    THEN [NoGithubResult EXCEPT !.comments = 1, !.labels = labelsOk]
    ELSE IF prOutcome = "created"
    THEN [NoGithubResult EXCEPT !.comments = 1, !.labels = labelsOk,
                                !.pullRequest = "created"]
    ELSE IF prOutcome = "conflict"
    THEN [NoGithubResult EXCEPT !.comments = 1, !.labels = labelsOk,
                                !.pullRequest = "branch_exists"]
    ELSE [NoGithubResult EXCEPT !.comments = 1, !.labels = labelsOk,
                                !.error = TRUE]

\* error.message of the error a call caught: the text of the two errors
\* resolveIssue makes itself (lines 120 and 277), otherwise whatever text the
\* raising callee gave it
ErrorMessage(err) ==
    CASE err = "capacity" -> "Maximum concurrent sessions reached"
      [] err = "fetch" -> "Unable to fetch Issue"
      [] OTHER -> "error.message"

\* session.error as the catch blocks build it: the message and the stack of
\* the error and the time
sessionError(message) ==
    [message |-> message, stack |-> "error.stack", timestamp |-> "Date.now"]

\* the record persistResults stores under results[session.id]; session.error
\* is set by the catch block only
ResultRecord(c, st, err) ==
    [issueNumber |-> c, status |-> st, success |-> (st = "completed"),
     error |-> IF err = "none" THEN "none" ELSE sessionError(ErrorMessage(err))]

\* a write that starts from an empty object instead of the file's content
WriteKey_Fresh(file, key, rec) == [k \in {key} |-> rec]

\* fs.writeJsonSync of a map with one key added or replaced
WriteKey(file, key, rec) ==
    [k \in (DOMAIN file) \cup {key} |-> IF k = key THEN rec ELSE file[k]]

\* persistResults / persistSession: read, set one key, write back; any
\* failure is caught and logged, leaving the file as it was
persist(file, key, rec, writeOk) ==
    IF writeOk THEN WriteKey(file, key, rec) ELSE file

\* an engine that registers its session under the sessionId option it is given
EngineSessionId_FromOptions(optionsSessionId, uuid) == optionsSessionId

\* the id under which the engine registers its session (line 116/122)
EngineSessionId(optionsSessionId, uuid) == uuid

\* a catch block that ends by returning an error result
CatchOutcome_ErrorResult == "error_result"

\* line 226: the catch block of resolveIssue ends by rethrowing
CatchOutcome == "thrown"

\* ---- the knowledge store, the publishing step and the analysis before
\* anything has used them
Sessions == 1..NumSessions

Runs == 1..2

\* a task with an empty text and no labels
NoIssue ==
    [critical |-> FALSE, security |-> FALSE, userBug |-> FALSE,
     highLabel |-> FALSE, textLength |-> 0, technicalTerms |-> 0,
     codeSnippets |-> 0, stackTraces |-> 0, labels |-> 0, references |-> 0]

MemoryFresh ==
    /\ enginePc = [s \in Sessions |-> "unbuilt"]
    /\ statePatterns = [s \in Sessions |-> {}]
    /\ stateKnowledge = [s \in Sessions |-> {}]
    /\ stateAgents = [s \in Sessions |-> <<>>]
    /\ sessionAgents = [s \in Sessions |-> <<>>]
    /\ patternsFile = {}
    /\ knowledgeFile = {}
    /\ learnedPatterns = {}
    /\ learnedKnowledge = {}
    /\ overlapped = FALSE

PublishFresh ==
    /\ processedResult = [score |-> 0, completeness |-> 0, files |-> 0]
    /\ published = <<>>

StrategyFresh ==
    /\ strategyContext = [complexity |-> "low", maxAgents |-> 15]
    /\ strategy = <<>>

MatchFresh ==
    /\ matchIssue = [domain |-> <<>>, complexity |-> <<>>, keyTerms |-> <<>>,
                     category |-> <<>>]
    /\ patternStore = <<>>
    /\ matchResult = <<>>

SynthesisFresh ==
    /\ generateContext = [patterns |-> {}]
    /\ sessionSolutions = <<>>
    /\ validation = <<>>
    /\ finalOutput = <<>>

ScoringFresh ==
    /\ complexityResult = <<>>
    /\ priorityResult = <<>>

StagesFresh == StrategyFresh /\ MatchFresh /\ SynthesisFresh /\ ScoringFresh

CoordinationFresh ==
    /\ swarmSize = 1
    /\ swarmDomain = "general"
    /\ workerPc = <<"pending">>
    /\ coordPc = "individual-analysis"
    /\ phases = <<>>
    /\ discussions = <<>>
    /\ consensusResult = <<>>
    /\ swarmStatus = "coordinating"

OutputFresh == actionsOutput = <<>> /\ sessionLearnings = <<>>

AnalysisFresh ==
    /\ issue = NoIssue
    /\ analysis = [r \in Runs |-> <<>>]
    /\ StagesFresh
    /\ CoordinationFresh
    /\ OutputFresh

\* a constructed orchestrator that has not been called
OrchFresh ==
    /\ running = 0
    /\ pc = [c \in Calls |-> "idle"]
    /\ orchestrationId = [c \in Calls |-> 0]
    /\ sessionId = [c \in Calls |-> 0]
    /\ status = [c \in Calls |-> "none"]
    /\ engineStatus = [c \in Calls |-> "none"]
    /\ error = [c \in Calls |-> "none"]
    /\ outcome = [c \in Calls |-> "none"]
    /\ fetchCalls = [c \in Calls |-> 0]
    /\ publishCalls = [c \in Calls |-> 0]
    /\ reportCalls = [c \in Calls |-> 0]
    /\ persistCalls = [c \in Calls |-> 0]
    /\ githubResult = [c \in Calls |-> NoGithubResult]
    /\ activeSessions = {}
    /\ engines = {}
    /\ results = <<>>

\* ---- initial state: a freshly constructed orchestrator ------------------
Init ==
    /\ maxConcurrentSessions \in 1..MaxLimit
    /\ autoCreatePR \in BOOLEAN
    /\ OrchFresh
    /\ sessionsFile = <<>>
    /\ learningEnabled = TRUE
    /\ MemoryFresh
    /\ PublishFresh
    /\ AnalysisFresh

\* a catch block that forgets to call reportErrorToGitHub
catchBlock_NoReport(c, id, err) ==
    /\ error' = [error EXCEPT ![c] = err]
    /\ UNCHANGED reportCalls
    /\ IF id \in activeSessions
       THEN /\ status' = [status EXCEPT ![c] = "failed"]
            /\ pc' = [pc EXCEPT ![c] = "err_report"]
            /\ outcome' = outcome
       ELSE /\ pc' = [pc EXCEPT ![c] = "done"]
            /\ outcome' = [outcome EXCEPT ![c] = "thrown"]
            /\ UNCHANGED status

\* ---- the catch block of resolveIssue (lines 202-227), up to its first
\* await: with a registered session it marks it failed and calls
\* reportErrorToGitHub, otherwise it rethrows at once
catchBlock(c, id, err) ==
    /\ error' = [error EXCEPT ![c] = err]
    /\ IF id \in activeSessions
       THEN /\ status' = [status EXCEPT ![c] = "failed"]
            /\ reportCalls' = [reportCalls EXCEPT ![c] = @ + 1]
            /\ pc' = [pc EXCEPT ![c] = "err_report"]
            /\ outcome' = outcome
       ELSE /\ pc' = [pc EXCEPT ![c] = "done"]
            /\ outcome' = [outcome EXCEPT ![c] = CatchOutcome]
            /\ UNCHANGED <<status, reportCalls>>

\* ---- resolveIssue, lines 110-124: id, capacity check, start of the fetch
Submit(c) ==
    /\ running = 0
    /\ pc[c] = "idle"
    /\ LET id == randomUUID(c, 1) IN
        /\ orchestrationId' = [orchestrationId EXCEPT ![c] = id]
        /\ IF CanAccept(activeSessions, maxConcurrentSessions)
           THEN /\ fetchCalls' = [fetchCalls EXCEPT ![c] = @ + 1]
                /\ pc' = [pc EXCEPT ![c] = "fetch"]
                /\ UNCHANGED <<status, reportCalls, error, outcome>>
           ELSE /\ catchBlock(c, id, "capacity")
                /\ UNCHANGED fetchCalls
    /\ UNCHANGED <<maxConcurrentSessions, autoCreatePR, running, sessionId,
                   engineStatus, publishCalls, persistCalls, githubResult,
                   activeSessions, engines, results,
                   sessionsFile>>
    /\ UNCHANGED <<memoryVars, publishVars, analysisVars>>

\* ---- fetchCompleteIssueData fails: lines 275-278, then the catch block
FetchFail(c) ==
    /\ running = 0
    /\ pc[c] = "fetch"
    /\ catchBlock(c, orchestrationId[c], "fetch")
    /\ UNCHANGED <<maxConcurrentSessions, autoCreatePR, running,
                   orchestrationId, sessionId, engineStatus, fetchCalls,
                   publishCalls, persistCalls, githubResult,
                   activeSessions, engines, results, sessionsFile>>
    /\ UNCHANGED <<memoryVars, publishVars, analysisVars>>

\* ---- fetch returns: lines 126-151, the session and its engine are
\* registered
FetchReturn(c) ==
    /\ running = 0
    /\ pc[c] = "fetch"
    /\ status' = [status EXCEPT ![c] = "initializing"]
    /\ activeSessions' = activeSessions \cup {orchestrationId[c]}
    /\ engines' = engines \cup {orchestrationId[c]}
    /\ pc' = [pc EXCEPT ![c] = "accepted"]
    /\ running' = c
    /\ UNCHANGED <<maxConcurrentSessions, autoCreatePR, orchestrationId,
                   sessionId, engineStatus, error, outcome, fetchCalls,
                   publishCalls, reportCalls, persistCalls, githubResult,
                   results, sessionsFile>>
    /\ UNCHANGED <<memoryVars, publishVars, analysisVars>>

\* ---- lines 154-157 and spawnHiveMind 116-140: the engine session is
\* created
StartEngine(c) ==
    /\ running = c
    /\ pc[c] = "accepted"
    /\ status' = [status EXCEPT ![c] = "executing"]
    /\ sessionId' = [sessionId EXCEPT
           ![c] = EngineSessionId(orchestrationId[c], randomUUID(c, 2))]
    /\ engineStatus' = [engineStatus EXCEPT ![c] = "initializing"]
    /\ pc' = [pc EXCEPT ![c] = "spawned"]
    /\ UNCHANGED <<maxConcurrentSessions, autoCreatePR, running,
                   orchestrationId, error, outcome, fetchCalls, publishCalls,
                   reportCalls, persistCalls, githubResult,
                   activeSessions, engines, results, sessionsFile>>
    /\ UNCHANGED <<memoryVars, publishVars, analysisVars>>

\* ---- spawnHiveMind 144-145: first stage entered and awaited
BeginAnalysis(c) ==
    /\ running = c
    /\ pc[c] = "spawned"
    /\ engineStatus' = [engineStatus EXCEPT ![c] = StageAfter[engineStatus[c]]]
    /\ pc' = [pc EXCEPT ![c] = "engine"]
    /\ running' = 0
    /\ UNCHANGED <<maxConcurrentSessions, autoCreatePR, orchestrationId,
                   sessionId, status, error, outcome, fetchCalls, publishCalls,
                   reportCalls, persistCalls, githubResult,
                   activeSessions, engines, results, sessionsFile>>
    /\ UNCHANGED <<memoryVars, publishVars, analysisVars>>

\* ---- an awaited stage returns: the next status is assigned and the next
\* stage (after 'completed': generateFinalOutput) is awaited
StageReturn(c) ==
    /\ running = 0
    /\ pc[c] = "engine"
    /\ engineStatus[c] \in AwaitedStages
    /\ engineStatus' = [engineStatus EXCEPT ![c] = StageAfter[engineStatus[c]]]
    /\ UNCHANGED <<maxConcurrentSessions, autoCreatePR, running, pc,
                   orchestrationId, sessionId, status, error, outcome,
                   fetchCalls, publishCalls, reportCalls, persistCalls,
                   githubResult, activeSessions, engines, results,
                   sessionsFile>>
    /\ UNCHANGED <<memoryVars, publishVars, analysisVars>>

\* ---- anything awaited inside the try block of spawnHiveMind raises
\* (a stage, or generateFinalOutput after status = 'completed'): lines
\* 194-203, with handleSessionFailure persisting the engine session
EngineFail(c) ==
    /\ running = 0
    /\ pc[c] = "engine"
    /\ engineStatus' = [engineStatus EXCEPT ![c] = "failed"]
    /\ \E writeOk \in BOOLEAN :
          sessionsFile' = persist(sessionsFile, sessionId[c],
                                  [issueNumber |-> c, status |-> "failed",
                                   error |-> sessionError(ErrorMessage("stage"))],
                                  writeOk)
    /\ pc' = [pc EXCEPT ![c] = "engine_failed"]
    /\ UNCHANGED <<maxConcurrentSessions, autoCreatePR, running,
                   orchestrationId, sessionId, status, error, outcome,
                   fetchCalls, publishCalls, reportCalls, persistCalls,
                   githubResult, activeSessions, engines,
                   results>>
    /\ UNCHANGED <<memoryVars, publishVars, analysisVars>>

\* ---- the rethrown engine error reaches the catch block of resolveIssue
EngineThrow(c) ==
    /\ running = 0
    /\ pc[c] = "engine_failed"
    /\ catchBlock(c, orchestrationId[c], "stage")
    /\ UNCHANGED <<maxConcurrentSessions, autoCreatePR, running,
                   orchestrationId, sessionId, engineStatus, fetchCalls,
                   publishCalls, persistCalls, githubResult,
                   activeSessions, engines, results, sessionsFile>>
    /\ UNCHANGED <<memoryVars, publishVars, analysisVars>>

\* ---- generateFinalOutput returns: lines 172-192 (persistSession) and the
\* orchestrator's lines 164-165
EngineReturn(c) ==
    /\ running = 0
    /\ pc[c] = "engine"
    /\ engineStatus[c] = "completed"
    /\ \E writeOk \in BOOLEAN :
          sessionsFile' = persist(sessionsFile, sessionId[c],
                                  [issueNumber |-> c, status |-> engineStatus[c]],
                                  writeOk)
    /\ status' = [status EXCEPT ![c] = "processing"]
    /\ pc' = [pc EXCEPT ![c] = "process"]
    /\ UNCHANGED <<maxConcurrentSessions, autoCreatePR, running,
                   orchestrationId, sessionId, engineStatus, error, outcome,
                   fetchCalls, publishCalls, reportCalls, persistCalls,
                   githubResult, activeSessions, engines,
                   results>>
    /\ UNCHANGED <<memoryVars, publishVars, analysisVars>>

\* ---- processHiveMindResult returns: lines 168-169, publishToGitHub called
ProcessReturn(c) ==
    /\ running = 0
    /\ pc[c] = "process"
    /\ status' = [status EXCEPT ![c] = "publishing"]
    /\ publishCalls' = [publishCalls EXCEPT ![c] = @ + 1]
    /\ pc' = [pc EXCEPT ![c] = "publish"]
    /\ UNCHANGED <<maxConcurrentSessions, autoCreatePR, running,
                   orchestrationId, sessionId, engineStatus, error, outcome,
                   fetchCalls, reportCalls, persistCalls, githubResult,
                   activeSessions, engines, results,
                   sessionsFile>>
    /\ UNCHANGED <<memoryVars, publishVars, analysisVars>>

\* ---- processHiveMindResult raises: the catch block
ProcessFail(c) ==
    /\ running = 0
    /\ pc[c] = "process"
    /\ catchBlock(c, orchestrationId[c], "process")
    /\ UNCHANGED <<maxConcurrentSessions, autoCreatePR, running,
                   orchestrationId, sessionId, engineStatus, fetchCalls,
                   publishCalls, persistCalls, githubResult,
                   activeSessions, engines, results, sessionsFile>>
    /\ UNCHANGED <<memoryVars, publishVars, analysisVars>>

\* ---- publishToGitHub settles: lines 171-180, the session is completed and
\* persistResults runs; a raising publishToGitHub would enter the catch block
PublishReturn(c) ==
    /\ running = 0
    /\ pc[c] = "publish"
    /\ \E score \in ScoreValues, commentOk \in BOOLEAN, labelsOk \in BOOLEAN,
          prOutcome \in {"created", "conflict", "error"}, writeOk \in BOOLEAN :
         LET doPR == autoCreatePR /\ shouldCreatePR(score,
                         assessCompleteness(TRUE, TRUE, TRUE), SolutionFileCount)
             r == publishToGitHub(commentOk, labelsOk, doPR, prOutcome)
         IN  IF r.thrown
             THEN /\ catchBlock(c, orchestrationId[c], "publish")
                  /\ UNCHANGED <<githubResult, persistCalls, results>>
             ELSE /\ githubResult' = [githubResult EXCEPT ![c] = r]
                  /\ status' = [status EXCEPT ![c] = "completed"]
                  /\ persistCalls' = [persistCalls EXCEPT ![c] = @ + 1]
                  /\ results' = persist(results, orchestrationId[c],
                                    ResultRecord(c, "completed", "none"), writeOk)
                  /\ pc' = [pc EXCEPT ![c] = "cleanup"]
                  /\ UNCHANGED <<error, outcome, reportCalls>>
    /\ UNCHANGED <<maxConcurrentSessions, autoCreatePR, running,
                   orchestrationId, sessionId, engineStatus, fetchCalls,
                   publishCalls, activeSessions, engines,
                   sessionsFile>>
    /\ UNCHANGED <<memoryVars, publishVars, analysisVars>>

\* a cleanup that releases the session and keeps its engine
Cleanup_KeepsEngine(c) ==
    /\ running = 0
    /\ pc[c] = "cleanup"
    /\ activeSessions' = activeSessions \ {orchestrationId[c]}
    /\ outcome' = [outcome EXCEPT ![c] = "success"]
    /\ pc' = [pc EXCEPT ![c] = "done"]
    /\ UNCHANGED <<maxConcurrentSessions, autoCreatePR, running,
                   orchestrationId, sessionId, status, engineStatus, error,
                   fetchCalls, publishCalls, reportCalls, persistCalls,
                   githubResult, engines, results, sessionsFile>>
    /\ UNCHANGED <<memoryVars, publishVars, analysisVars>>

\* ---- lines 182-200: cleanup and the success result
Cleanup(c) ==
    /\ running = 0
    /\ pc[c] = "cleanup"
    /\ activeSessions' = activeSessions \ {orchestrationId[c]}
    /\ engines' = engines \ {orchestrationId[c]}
    /\ outcome' = [outcome EXCEPT ![c] = "success"]
    /\ pc' = [pc EXCEPT ![c] = "done"]
    /\ UNCHANGED <<maxConcurrentSessions, autoCreatePR, running,
                   orchestrationId, sessionId, status, engineStatus, error,
                   fetchCalls, publishCalls, reportCalls, persistCalls,
                   githubResult, results, sessionsFile>>
    /\ UNCHANGED <<memoryVars, publishVars, analysisVars>>

\* ---- reportErrorToGitHub settles (its own failure is swallowed, lines
\* 885-887): line 219, persistResults of the failed session
ErrorReported(c) ==
    /\ running = 0
    /\ pc[c] = "err_report"
    /\ persistCalls' = [persistCalls EXCEPT ![c] = @ + 1]
    /\ \E writeOk \in BOOLEAN :
          results' = persist(results, orchestrationId[c],
                             ResultRecord(c, status[c], error[c]), writeOk)
    /\ pc' = [pc EXCEPT ![c] = "err_cleanup"]
    /\ UNCHANGED <<maxConcurrentSessions, autoCreatePR, running,
                   orchestrationId, sessionId, status, engineStatus, error,
                   outcome, fetchCalls, publishCalls, reportCalls,
                   githubResult, activeSessions, engines,
                   sessionsFile>>
    /\ UNCHANGED <<memoryVars, publishVars, analysisVars>>

\* a catch block that rethrows without releasing the session
ErrorCleanup_KeepsSession(c) ==
    /\ running = 0
    /\ pc[c] = "err_cleanup"
    /\ outcome' = [outcome EXCEPT ![c] = CatchOutcome]
    /\ pc' = [pc EXCEPT ![c] = "done"]
    /\ UNCHANGED <<maxConcurrentSessions, autoCreatePR, running,
                   orchestrationId, sessionId, status, engineStatus, error,
                   fetchCalls, publishCalls, reportCalls, persistCalls,
                   githubResult, activeSessions, engines, results,
                   sessionsFile>>
    /\ UNCHANGED <<memoryVars, publishVars, analysisVars>>

\* ---- lines 221-226: cleanup and rethrow
ErrorCleanup(c) ==
    /\ running = 0
    /\ pc[c] = "err_cleanup"
    /\ activeSessions' = activeSessions \ {orchestrationId[c]}
    /\ engines' = engines \ {orchestrationId[c]}
    /\ outcome' = [outcome EXCEPT ![c] = CatchOutcome]
    /\ pc' = [pc EXCEPT ![c] = "done"]
    /\ UNCHANGED <<maxConcurrentSessions, autoCreatePR, running,
                   orchestrationId, sessionId, status, engineStatus, error,
                   fetchCalls, publishCalls, reportCalls, persistCalls,
                   githubResult, results, sessionsFile>>
    /\ UNCHANGED <<memoryVars, publishVars, analysisVars>>

Next ==
    \E c \in Calls :
        \/ Submit(c)
        \/ FetchFail(c)
        \/ FetchReturn(c)
        \/ StartEngine(c)
        \/ BeginAnalysis(c)
        \/ StageReturn(c)
        \/ EngineFail(c)
        \/ EngineThrow(c)
        \/ EngineReturn(c)
        \/ ProcessReturn(c)
        \/ ProcessFail(c)
        \/ PublishReturn(c)
        \/ Cleanup(c)
        \/ ErrorReported(c)
        \/ ErrorCleanup(c)

Spec == Init /\ [][Next]_vars

\* ---- every awaited call of a started resolveIssue call eventually settles
\* and the event loop then runs its continuation: whatever call c can do
\* next (anything but being submitted), it eventually does
Progress(c) ==
    \/ FetchFail(c)
    \/ FetchReturn(c)
    \/ StartEngine(c)
    \/ BeginAnalysis(c)
    \/ StageReturn(c)
    \/ EngineFail(c)
    \/ EngineThrow(c)
    \/ EngineReturn(c)
    \/ ProcessReturn(c)
    \/ ProcessFail(c)
    \/ PublishReturn(c)
    \/ Cleanup(c)
    \/ ErrorReported(c)
    \/ ErrorCleanup(c)

FairSpec == Init /\ [][Next]_vars /\ \A c \in Calls : WF_vars(Progress(c))

\* ======================================================================
\* The knowledge store: engine sessions sharing hive-mind-memory
\* ======================================================================

\* Math.min and Math.max
min(a, b) == IF a < b THEN a ELSE b

max(a, b) == IF a > b THEN a ELSE b

\* this.options.maxAgents as the orchestrator sets it for every engine
maxAgents == 15

\* calculateSimilarity: a sum of at most 0.3 + 0.2 + 0.3 + 0.2 divided by its
\* four factors, in hundredths
MaxSimilarity == 25

\* SolutionGenerationNetwork.generate builds at most three candidates
MaxSolutions == 3

\* analysis.complexity.level of the task at hand, sampled
ComplexityLevels == {"low", "medium"}

\* AgentCoordinationNetwork.complexityToAgentCount
complexityToAgentCount(complexity) ==
    CASE complexity = "low" -> 2
      [] complexity = "medium" -> 4
      [] complexity = "high" -> 6
      [] complexity = "very-high" -> 8
      [] OTHER -> 3

\* the table value taken without the upper limit
recommendedCount_Unlimited(complexity, limit) ==
    max(2, complexityToAgentCount(complexity))

\* AgentCoordinationNetwork.generateStrategy: the number of agents
recommendedCount(complexity, limit) ==
    min(max(2, complexityToAgentCount(complexity)), limit)

\* the ids crypto.randomUUID yields for session s: its pattern, its j-th
\* knowledge record, its i-th agent (collision free, as randomUUID above)
patternId(s) == s

knowledgeId(s, j) == MaxSolutions * (s - 1) + j

agentId(s, i) == maxAgents * (s - 1) + i

\* loadNeuralPatterns: every entry of patterns.json is put into
\* state.patterns; a failing read is logged and leaves the map empty
loadNeuralPatterns(file, readOk) == IF readOk THEN file ELSE {}

\* matchPatterns: the stored patterns whose similarity to the task exceeds 0.7
matchPatterns(patterns) ==
    {p \in patterns : \E similarity \in 0..MaxSimilarity : similarity > 70}

\* one candidate more than the patterns, without the limit of three
solutionCount_Unlimited(matched) == Cardinality(matched) + 1

\* SolutionGenerationNetwork.generate: Math.min(3, patterns.length + 1)
solutionCount(matched) == min(MaxSolutions, Cardinality(matched) + 1)

\* LearningOptimizationNetwork.extract: one pattern when the overall quality
\* exceeds 0.8, one knowledge record for each solution
extract(s, overallQuality, solutions) ==
    [patterns  |-> IF overallQuality > 80 THEN {patternId(s)} ELSE {},
     knowledge |-> {knowledgeId(s, j) : j \in 1..solutions}]

\* spawnIntelligentAgents / createIntelligentAgent: the agent objects by id
createIntelligentAgents(s, count) ==
    [i \in {agentId(s, k) : k \in 1..count} |->
        [id |-> i, sessionId |-> s, status |-> "active"]]

\* persistSession: every field of the session (metrics.agentsSpawned among
\* them), with its agents map turned into an object of the agents by id
serializedSession(s, st, agents, err) ==
    [id |-> s, status |-> st, agentsSpawned |-> Cardinality(DOMAIN agents),
     agents |-> agents, error |-> err]

\* an engine session that has started and has neither returned nor thrown
Live(s) == enginePc[s] \notin {"unbuilt", "returned", "thrown"}

MemoryInit ==
    /\ maxConcurrentSessions = 1
    /\ autoCreatePR = FALSE
    /\ OrchFresh
    /\ sessionsFile = <<>>
    /\ learningEnabled \in BOOLEAN
    /\ MemoryFresh
    /\ PublishFresh
    /\ AnalysisFresh

\* ---- resolveIssue 142-157: a new engine (its constructor loads the
\* patterns) and spawnHiveMind up to its first stage
StartSession(s) ==
    /\ enginePc[s] = "unbuilt"
    /\ \E readOk \in BOOLEAN :
          statePatterns' = [statePatterns EXCEPT
              ![s] = loadNeuralPatterns(patternsFile, readOk)]
    /\ enginePc' = [enginePc EXCEPT ![s] = "analyzing"]
    /\ overlapped' = (overlapped \/ \E t \in Sessions : Live(t))
    /\ UNCHANGED <<learningEnabled, stateKnowledge, stateAgents, sessionAgents,
                   patternsFile, knowledgeFile, learnedPatterns,
                   learnedKnowledge, sessionsFile>>
    /\ UNCHANGED <<orchVars, publishVars, analysisVars>>

\* a stage that keeps only the patterns it matched in the engine's map
StageDone_Pruning(s) ==
    /\ enginePc[s] \in {"analyzing", "coordinating", "synthesizing", "validating"}
    /\ enginePc' = [enginePc EXCEPT ![s] = StageAfter[enginePc[s]]]
    /\ statePatterns' = [statePatterns EXCEPT ![s] = matchPatterns(@)]
    /\ UNCHANGED <<learningEnabled, stateKnowledge, stateAgents,
                   sessionAgents, patternsFile, knowledgeFile, learnedPatterns,
                   learnedKnowledge, overlapped, sessionsFile>>
    /\ UNCHANGED <<orchVars, publishVars, analysisVars>>

\* ---- performDeepAnalysis, coordinateAgentSwarm, synthesizeSolutions or
\* performQualityAssessment returns: they read the stores (matchPatterns) and
\* write none
StageDone(s) ==
    /\ enginePc[s] \in {"analyzing", "coordinating", "synthesizing", "validating"}
    /\ enginePc' = [enginePc EXCEPT ![s] = StageAfter[enginePc[s]]]
    /\ UNCHANGED <<learningEnabled, statePatterns, stateKnowledge, stateAgents,
                   sessionAgents, patternsFile, knowledgeFile, learnedPatterns,
                   learnedKnowledge, overlapped, sessionsFile>>
    /\ UNCHANGED <<orchVars, publishVars, analysisVars>>

\* ---- generateAgentStrategy and spawnIntelligentAgents return: every agent
\* is put into session.agents and into state.agents
AgentsSpawned(s) ==
    /\ enginePc[s] = "spawning"
    /\ \E complexity \in ComplexityLevels :
          LET agents == createIntelligentAgents(s,
                            recommendedCount(complexity, maxAgents))
          IN  /\ sessionAgents' = [sessionAgents EXCEPT ![s] = agents]
              /\ stateAgents' = [stateAgents EXCEPT ![s] = agents @@ @]
    /\ enginePc' = [enginePc EXCEPT ![s] = StageAfter[enginePc[s]]]
    /\ UNCHANGED <<learningEnabled, statePatterns, stateKnowledge,
                   patternsFile, knowledgeFile, learnedPatterns,
                   learnedKnowledge, overlapped, sessionsFile>>
    /\ UNCHANGED <<orchVars, publishVars, analysisVars>>

\* ---- integrateLearnedPatterns returns: the learnings are put into the
\* engine's maps and persistLearnings writes both maps out whole, first
\* patterns.json, then knowledge.json; a failing write ends it (written: the
\* number of files written)
LearningDone(s) ==
    /\ enginePc[s] = "learning"
    /\ IF ~learningEnabled
       THEN UNCHANGED <<statePatterns, stateKnowledge, patternsFile,
                        knowledgeFile, learnedPatterns, learnedKnowledge>>
       ELSE \E overallQuality \in ScoreValues, written \in 0..2 :
              LET learnings == extract(s, overallQuality,
                                   solutionCount(matchPatterns(statePatterns[s])))
                  patterns == statePatterns[s] \cup learnings.patterns
                  knowledge == stateKnowledge[s] \cup learnings.knowledge
              IN  /\ statePatterns' = [statePatterns EXCEPT ![s] = patterns]
                  /\ stateKnowledge' = [stateKnowledge EXCEPT ![s] = knowledge]
                  /\ patternsFile' = IF written >= 1 THEN patterns
                                                     ELSE patternsFile
                  /\ knowledgeFile' = IF written = 2 THEN knowledge
                                                     ELSE knowledgeFile
                  /\ learnedPatterns' = learnedPatterns \cup
                        (IF written >= 1 THEN learnings.patterns ELSE {})
                  /\ learnedKnowledge' = learnedKnowledge \cup
                        (IF written = 2 THEN learnings.knowledge ELSE {})
    /\ enginePc' = [enginePc EXCEPT ![s] = StageAfter[enginePc[s]]]
    /\ UNCHANGED <<learningEnabled, stateAgents, sessionAgents, overlapped,
                   sessionsFile>>
    /\ UNCHANGED <<orchVars, publishVars, analysisVars>>

\* ---- generateFinalOutput returns: persistSession and the result
SessionReturn(s) ==
    /\ enginePc[s] = "completed"
    /\ \E writeOk \in BOOLEAN :
          sessionsFile' = persist(sessionsFile, s,
              serializedSession(s, "completed", sessionAgents[s], "none"),
              writeOk)
    /\ enginePc' = [enginePc EXCEPT ![s] = "returned"]
    /\ UNCHANGED <<learningEnabled, statePatterns, stateKnowledge, stateAgents,
                   sessionAgents, patternsFile, knowledgeFile, learnedPatterns,
                   learnedKnowledge, overlapped>>
    /\ UNCHANGED <<orchVars, publishVars, analysisVars>>

\* a catch block that takes the failed session's learnings out of the store
SessionFail_RollsBack(s) ==
    /\ enginePc[s] \in AwaitedStages \cup {"completed"}
    /\ \E writeOk \in BOOLEAN :
          sessionsFile' = persist(sessionsFile, s,
              serializedSession(s, "failed", sessionAgents[s],
                                sessionError(ErrorMessage("stage"))),
              writeOk)
    /\ enginePc' = [enginePc EXCEPT ![s] = "thrown"]
    /\ patternsFile' = patternsFile \ {patternId(s)}
    /\ knowledgeFile' = knowledgeFile \ {knowledgeId(s, j) : j \in 1..MaxSolutions}
    /\ UNCHANGED <<learningEnabled, statePatterns, stateKnowledge, stateAgents,
                   sessionAgents, learnedPatterns, learnedKnowledge, overlapped>>
    /\ UNCHANGED <<orchVars, publishVars, analysisVars>>

\* ---- a stage or generateFinalOutput raises: the catch block of
\* spawnHiveMind marks the session failed, persists it and rethrows
SessionFail(s) ==
    /\ enginePc[s] \in AwaitedStages \cup {"completed"}
    /\ \E writeOk \in BOOLEAN :
          sessionsFile' = persist(sessionsFile, s,
              serializedSession(s, "failed", sessionAgents[s],
                                sessionError(ErrorMessage("stage"))),
              writeOk)
    /\ enginePc' = [enginePc EXCEPT ![s] = "thrown"]
    /\ UNCHANGED <<learningEnabled, statePatterns, stateKnowledge, stateAgents,
                   sessionAgents, patternsFile, knowledgeFile, learnedPatterns,
                   learnedKnowledge, overlapped>>
    /\ UNCHANGED <<orchVars, publishVars, analysisVars>>

MemoryNext ==
    \E s \in Sessions :
        \/ StartSession(s)
        \/ StageDone(s)
        \/ AgentsSpawned(s)
        \/ LearningDone(s)
        \/ SessionReturn(s)
        \/ SessionFail(s)

MemorySpec == MemoryInit /\ [][MemoryNext]_vars

\* ======================================================================
\* The publishing step on its own: publishToGitHub for any processedResult
\* ======================================================================

\* result.quality.score and result.quality.completeness around the
\* thresholds of shouldCreatePR, in hundredths
GateScores == {80, 81, 96}

GateCompleteness == {90, 91, 100}

\* publishToGitHub reaches createPullRequest (line 385) when
\* createAnalysisComment has not raised and the condition of line 384 holds
createPullRequestInvoked(commentOk, doPR) == commentOk /\ doPR

PublishInit ==
    /\ maxConcurrentSessions = 1
    /\ autoCreatePR \in BOOLEAN
    /\ OrchFresh
    /\ sessionsFile = <<>>
    /\ learningEnabled = TRUE
    /\ MemoryFresh
    /\ processedResult \in [score : GateScores, completeness : GateCompleteness,
                            files : 0..MaxFiles]
    /\ published = <<>>
    /\ AnalysisFresh

\* ---- publishToGitHub runs on processedResult
PublishToGitHub ==
    /\ published = <<>>
    /\ \E commentOk \in BOOLEAN, labelsOk \in BOOLEAN,
          prOutcome \in {"created", "conflict", "error"} :
         LET doPR == autoCreatePR /\ shouldCreatePR(processedResult.score,
                         processedResult.completeness, processedResult.files)
         IN  published' =
                 <<[githubResult |-> publishToGitHub(commentOk, labelsOk, doPR,
                                                     prOutcome),
                    createPullRequestCalls |->
                        IF createPullRequestInvoked(commentOk, doPR) THEN 1
                                                                     ELSE 0]>>
    /\ UNCHANGED <<orchVars, sessionsFile, memoryVars, processedResult,
                   analysisVars>>

PublishNext == PublishToGitHub

PublishSpec == PublishInit /\ [][PublishNext]_vars

\* ======================================================================
\* The analysis on its own: performDeepAnalysis run twice on one task
\* ======================================================================

\* a factor of assessComplexity counts fully from 10 on (Math.min(value / 10, 1))
FactorCap == 10

\* the tasks analysed.  critical: the text has 'critical', 'urgent' or
\* 'production'; security: it has 'security' or 'vulnerability'; userBug: it
\* has 'user' and 'error' or 'bug'; highLabel: a label name has 'high',
\* 'critical', 'urgent', 'p1' or 'priority-high'; the rest are the factors
\* assessComplexity counts in the text
Issues ==
    {i \in [critical : BOOLEAN, security : BOOLEAN, userBug : {FALSE},
            highLabel : BOOLEAN, textLength : {0, FactorCap},
            technicalTerms : {0, FactorCap}, codeSnippets : {0},
            stackTraces : {0, FactorCap}, labels : {0, 1}, references : {0}] :
        i.highLabel => i.labels > 0}

\* the values Math.random() * 0.4 + 0.6 takes, in hundredths, sampled at both
\* ends of [0.6, 1.0)
RandomScores == {60, 99}

\* ProblemClassificationNetwork.classify: the categories in order
Categories ==
    <<"bug", "feature", "enhancement", "documentation", "performance",
      "security">>

\* the weighted sum of the factors as they are, not limited to 10 each
calculateComplexityScore_Unlimited(factors) ==
    min(1 * factors.textLength + 3 * factors.technicalTerms
        + 2 * factors.codeSnippets + 2 * factors.stackTraces
        + 1 * factors.labels + 1 * factors.references, 100)

\* calculateComplexityScore, in hundredths: the weights are 0.1, 0.3, 0.2,
\* 0.2, 0.1, 0.1 and every factor enters as Math.min(value / 10, 1)
calculateComplexityScore(factors) ==
    min(1 * min(factors.textLength, FactorCap)
        + 3 * min(factors.technicalTerms, FactorCap)
        + 2 * min(factors.codeSnippets, FactorCap)
        + 2 * min(factors.stackTraces, FactorCap)
        + 1 * min(factors.labels, FactorCap)
        + 1 * min(factors.references, FactorCap), 100)

\* categorizeComplexity
categorizeComplexity(score) ==
    IF score < 30 THEN "low"
    ELSE IF score < 60 THEN "medium"
    ELSE IF score < 80 THEN "high"
    ELSE "very-high"

\* the sum of the increments without the limit of 1.0
assessPriority_Unlimited(i) ==
    50 + (IF i.critical THEN 30 ELSE 0) + (IF i.security THEN 20 ELSE 0)
       + (IF i.userBug THEN 20 ELSE 0) + (IF i.highLabel THEN 30 ELSE 0)

\* assessPriority, in hundredths
assessPriority(i) ==
    min(50 + (IF i.critical THEN 30 ELSE 0) + (IF i.security THEN 20 ELSE 0)
           + (IF i.userBug THEN 20 ELSE 0) + (IF i.highLabel THEN 30 ELSE 0),
        100)

\* scores.reduce((a, b) => a.score > b.score ? a : b) over the first n
\* categories: the index of the category kept
RECURSIVE reduceBest(_, _)
reduceBest(scores, n) ==
    IF n = 1 THEN 1
    ELSE LET a == reduceBest(scores, n - 1)
         IN  IF scores[a] > scores[n] THEN a ELSE n

\* ProblemClassificationNetwork.classify: scores[k] is the random score
\* drawn for the k-th category
classify(scores) ==
    LET best == reduceBest(scores, Len(Categories))
    IN  [category |-> Categories[best], confidence |-> scores[best]]

\* performDeepAnalysis: the fields of the Analysis that depend on the task,
\* on state.patterns and on the scores drawn by classify
performDeepAnalysis(i, patterns, scores) ==
    [complexity |-> [score |-> calculateComplexityScore(i),
                     level |-> categorizeComplexity(calculateComplexityScore(i))],
     patterns |-> matchPatterns(patterns),
     priority |-> assessPriority(i),
     neuralClassification |-> classify(scores)]

AnalysisInit ==
    /\ maxConcurrentSessions = 1
    /\ autoCreatePR = FALSE
    /\ OrchFresh
    /\ sessionsFile = <<>>
    /\ learningEnabled = TRUE
    /\ MemoryFresh
    /\ PublishFresh
    /\ issue \in Issues
    /\ analysis = [r \in Runs |-> <<>>]
    /\ StagesFresh
    /\ CoordinationFresh
    /\ OutputFresh

\* ---- one run of performDeepAnalysis on the task, on session 1's engine
Analyze(r) ==
    /\ analysis[r] = <<>>
    /\ \E scores \in [1..Len(Categories) -> RandomScores] :
          analysis' = [analysis EXCEPT
              ![r] = <<performDeepAnalysis(issue, statePatterns[1], scores)>>]
    /\ UNCHANGED <<orchVars, sessionsFile, memoryVars, publishVars, coordVars,
                   issue,
                   stageVars>>

AnalysisNext == \E r \in Runs : Analyze(r)

AnalysisSpec == AnalysisInit /\ [][AnalysisNext]_vars

\* ======================================================================
\* The stages of the engine on their own, each applied to the arguments its
\* caller may hand it
\* ======================================================================

\* everything but the stage under study, untouched
StageBase ==
    /\ maxConcurrentSessions = 1
    /\ autoCreatePR = FALSE
    /\ OrchFresh
    /\ sessionsFile = <<>>
    /\ learningEnabled = TRUE
    /\ MemoryFresh
    /\ PublishFresh
    /\ CoordinationFresh
    /\ OutputFresh

\* ---- generateStrategy ------------------------------------------------------

\* options.maxAgents of an engine ranges over 1..MaxWorkers
MaxWorkers == 16

\* the levels categorizeComplexity yields
ComplexityTiers == {"low", "medium", "high", "very-high"}

\* agentTypes of generateStrategy
agentTypes ==
    <<"analyzer", "implementer", "tester", "reviewer", "coordinator",
      "optimizer", "validator", "documenter", "security-specialist",
      "performance-expert">>

\* AgentCoordinationNetwork.generateStrategy: one agent per index below
\* recommendedCount, its type taken round robin from agentTypes
generateStrategy(context) ==
    LET count == recommendedCount(context.complexity, context.maxAgents)
    IN  [agents |-> [i \in 1..count |->
                        [type |-> agentTypes[((i - 1) % Len(agentTypes)) + 1]]],
         coordination |-> "swarm-intelligence"]

StrategyInit ==
    /\ StageBase
    /\ issue = NoIssue
    /\ analysis = [r \in Runs |-> <<>>]
    /\ strategyContext \in [complexity : ComplexityTiers, maxAgents : 1..MaxWorkers]
    /\ strategy = <<>>
    /\ MatchFresh
    /\ SynthesisFresh
    /\ ScoringFresh

\* ---- generateAgentStrategy 425-441: the strategy for the analysed task
GenerateStrategy ==
    /\ strategy = <<>>
    /\ strategy' = <<generateStrategy(strategyContext)>>
    /\ UNCHANGED <<orchVars, sessionsFile, memoryVars, publishVars, coordVars,
                   issue,
                   analysis, strategyContext, matchIssue, patternStore,
                   matchResult, generateContext, sessionSolutions, validation,
                   finalOutput, complexityResult, priorityResult>>

StrategyNext == GenerateStrategy

StrategySpec == StrategyInit /\ [][StrategyNext]_vars

\* ---- matchPatterns -----------------------------------------------------------

\* at most MaxPatterns patterns are stored
MaxPatterns == 2

\* similarities are in 1/4800 (0.7 is 3360), which keeps every quotient of
\* calculateSimilarity whole for lists of at most six key terms; success
\* rates are in hundredths and confidences, their products, in 1/480000
SimilarityOne == 4800

\* a threshold of 0.2
SimilarityThreshold_Low == SimilarityOne \div 5

\* the threshold of matchPatterns, line 296: similarity > 0.7
SimilarityThreshold == 3360

\* the key terms of a task: semantic.keyTerms may hold more than five
SixTerms == <<"api", "cache", "db", "queue", "auth", "log">>

\* a field of the task is <<>> when the object has no such property and <<v>>
\* when it has the value v.  The task resolveIssue hands over is the fetched
\* issue, which has none of the four; a caller of the engine may hand over an
\* object that has them
MatchIssues ==
    [domain : {<<>>, <<"backend">>, <<"frontend">>},
     complexity : {<<>>, <<"low">>},
     keyTerms : {<<>>, << <<>> >>, << <<"api">> >>, <<SixTerms>>},
     category : {<<>>, <<"bug">>}]

\* the patterns extract stores (createSignature 1612-1619), with the success
\* rates a stored pattern may carry
Patterns ==
    [signature : [domain : {"backend"}, complexity : {"low", "very-high"},
                  keyTerms : {<<>>, <<"api">>, SubSeq(SixTerms, 1, 4)},
                  category : {"bug"}],
     successRate : {50, 100}]

\* state.patterns in insertion order: the k-th entry has the key k
PatternStores == UNION {[1..n -> Patterns] : n \in 0..MaxPatterns}

\* complexityMap of calculateSimilarity
complexityMap(level) ==
    CASE level = "low" -> 1
      [] level = "medium" -> 2
      [] level = "high" -> 3
      [] level = "very-high" -> 4

abs(x) == IF x < 0 THEN 0 - x ELSE x

\* the elements of a that b includes: a.filter(term => b.includes(term)).length
overlap(a, b) ==
    Cardinality({k \in DOMAIN a : \E j \in DOMAIN b : b[j] = a[k]})

\* the sum of the four terms, not divided by their number
calculateSimilarity_Undivided(issue1, signature) ==
    LET domainTerm ==
            IF issue1.domain = <<signature.domain>> THEN 1440
            ELSE IF issue1.domain # <<>> THEN 480
            ELSE 0
        diff == abs(complexityMap(issue1.complexity[1])
                    - complexityMap(signature.complexity))
        complexityTerm == max(0, 3 - diff) * 320
        terms == issue1.keyTerms[1]
        longest == max(Len(terms), Len(signature.keyTerms))
        keyTermsTerm ==
            IF issue1.keyTerms = <<>> THEN 0
            ELSE (overlap(terms, signature.keyTerms) * 1440) \div longest
        categoryTerm == IF issue1.category = <<signature.category>> THEN 960 ELSE 0
    IN  IF issue1.complexity = <<>> \/ (issue1.keyTerms # <<>> /\ longest = 0)
        THEN [nan |-> TRUE, value |-> 0]
        ELSE [nan |-> FALSE,
              value |-> domainTerm + complexityTerm + keyTermsTerm + categoryTerm]

\* calculateSimilarity.  nan: the result is NaN, which happens when the task
\* has no complexity level (complexityMap[undefined] - n) and when both lists
\* of key terms are empty (0 / 0); value: the result otherwise
calculateSimilarity(issue1, signature) ==
    LET domainTerm ==
            IF issue1.domain = <<signature.domain>> THEN 1440
            ELSE IF issue1.domain # <<>> THEN 480
            ELSE 0
        complexityNaN == issue1.complexity = <<>>
        diff == abs(complexityMap(issue1.complexity[1])
                    - complexityMap(signature.complexity))
        complexityTerm == max(0, 3 - diff) * 320
        terms == issue1.keyTerms[1]
        longest == max(Len(terms), Len(signature.keyTerms))
        keyTermsNaN == issue1.keyTerms # <<>> /\ longest = 0
        keyTermsTerm ==
            IF issue1.keyTerms = <<>> THEN 0
            ELSE (overlap(terms, signature.keyTerms) * 1440) \div longest
        categoryTerm == IF issue1.category = <<signature.category>> THEN 960 ELSE 0
        factors == 4
    IN  IF complexityNaN \/ keyTermsNaN THEN [nan |-> TRUE, value |-> 0]
        ELSE [nan |-> FALSE,
              value |-> (domainTerm + complexityTerm + keyTermsTerm
                         + categoryTerm) \div factors]

\* patterns.sort((a, b) => b.confidence - a.confidence), a stable sort: the
\* entry e put into a list that is already in order
insertByConfidence(e, sorted) ==
    LET before == {k \in 0..Len(sorted) :
                      \A j \in 1..k : sorted[j].confidence >= e.confidence}
        at == CHOOSE k \in before : \A o \in before : o <= k
    IN  SubSeq(sorted, 1, at) \o <<e>> \o SubSeq(sorted, at + 1, Len(sorted))

RECURSIVE sortByConfidence(_)
sortByConfidence(entries) ==
    IF entries = <<>> THEN <<>>
    ELSE insertByConfidence(entries[Len(entries)],
                            sortByConfidence(SubSeq(entries, 1, Len(entries) - 1)))

\* the loop of matchPatterns over the first n stored patterns
RECURSIVE matchLoop(_, _, _)
matchLoop(issue1, store, n) ==
    IF n = 0 THEN <<>>
    ELSE LET similarity == calculateSimilarity(issue1, store[n].signature)
             rest == matchLoop(issue1, store, n - 1)
         IN  IF ~similarity.nan /\ similarity.value > SimilarityThreshold
             THEN Append(rest, [id |-> n, similarity |-> similarity.value,
                                confidence |-> similarity.value * store[n].successRate])
             ELSE rest

\* matchPatterns with the entries it returns in their order
matchPatternsOrdered(issue1, store) ==
    sortByConfidence(matchLoop(issue1, store, Len(store)))

MatchInit ==
    /\ StageBase
    /\ issue = NoIssue
    /\ analysis = [r \in Runs |-> <<>>]
    /\ StrategyFresh
    /\ matchIssue \in MatchIssues
    /\ patternStore \in PatternStores
    /\ matchResult = <<>>
    /\ SynthesisFresh
    /\ ScoringFresh

\* ---- performDeepAnalysis line 228: matchPatterns on the task
MatchPatterns ==
    /\ matchResult = <<>>
    /\ matchResult' = <<matchPatternsOrdered(matchIssue, patternStore)>>
    /\ UNCHANGED <<orchVars, sessionsFile, memoryVars, publishVars, coordVars,
                   issue,
                   analysis, strategyContext, strategy, matchIssue, patternStore,
                   generateContext, sessionSolutions, validation, finalOutput,
                   complexityResult, priorityResult>>

MatchNext == MatchPatterns

MatchSpec == MatchInit /\ [][MatchNext]_vars

\* ---- synthesizeSolutions, performQualityAssessment, generateFinalOutput -----

\* context.patterns of generate holds at most MaxMatched matched patterns
MaxMatched == 3

\* the seven metrics of QualityAssessmentNetwork.assess
MetricNames ==
    {"completeness", "correctness", "maintainability", "performance",
     "security", "testability", "documentation"}

\* the values of the metrics that draw Math.random(), in hundredths, sampled
\* at both ends: 0.8 + r * 0.2, 0.75 + r * 0.25, 0.8 + r * 0.2 and
\* 0.85 + r * 0.15 for r in [0, 1)
CorrectnessValues == {80, 99}

MaintainabilityValues == {75, 99}

PerformanceValues == {80, 99}

SecurityValues == {85, 99}

RandomMetrics ==
    [correctness : CorrectnessValues, maintainability : MaintainabilityValues,
     performance : PerformanceValues, security : SecurityValues]

\* generateSingleSolution: the approach is `AI-Generated Approach ${index + 1}`
\* and code, tests and documentation are generated texts; the id stands for
\* the one crypto.randomUUID yields
generateSingleSolution(index) ==
    [id |-> index + 1, approach |-> <<"AI-Generated Approach", index + 1>>,
     code |-> TRUE, tests |-> TRUE, documentation |-> TRUE,
     files |-> SolutionFileCount]

\* SolutionGenerationNetwork.generate
generate(context) ==
    [k \in 1..solutionCount(context.patterns) |-> generateSingleSolution(k - 1)]

\* assessTestability and assessDocumentation
assessTestability(solution) == IF solution.tests THEN 90 ELSE 60

assessDocumentation(solution) == IF solution.documentation THEN 85 ELSE 50

\* generateRecommendations
generateRecommendations(metrics) ==
    (IF metrics.completeness < 80
     THEN <<"Add missing implementation components">> ELSE <<>>)
    \o (IF metrics.testability < 80
        THEN <<"Improve test coverage and quality">> ELSE <<>>)
    \o (IF metrics.documentation < 80
        THEN <<"Enhance documentation and examples">> ELSE <<>>)

RECURSIVE sumOver(_, _)
sumOver(metrics, names) ==
    IF names = {} THEN 0
    ELSE LET name == CHOOSE n \in names : TRUE
         IN  metrics[name] + sumOver(metrics, names \ {name})

\* the sum of the metrics divided by one less than their number
overallScore_OverSix(metrics) ==
    (7 * sumOver(metrics, DOMAIN metrics)) \div (Cardinality(DOMAIN metrics) - 1)

\* overallScore of assess: the sum of the metrics divided by their number.
\* Metrics are in hundredths; the score is in 1/700, which keeps the quotient
\* whole
overallScore(metrics) ==
    (7 * sumOver(metrics, DOMAIN metrics)) \div Cardinality(DOMAIN metrics)

\* QualityAssessmentNetwork.assess; random holds the values drawn
assess(solution, random) ==
    LET metrics ==
            [completeness |-> assessCompleteness(solution.code, solution.tests,
                                                 solution.documentation),
             correctness |-> random.correctness,
             maintainability |-> random.maintainability,
             performance |-> random.performance,
             security |-> random.security,
             testability |-> assessTestability(solution),
             documentation |-> assessDocumentation(solution)]
    IN  [score |-> overallScore(metrics), metrics |-> metrics,
         recommendations |-> generateRecommendations(metrics),
         completeness |-> metrics.completeness,
         maintainability |-> metrics.maintainability]

\* performQualityAssessment: every solution with its assessment
performQualityAssessment(sols, randoms) ==
    [solutions |-> [k \in DOMAIN sols |->
        [id |-> sols[k].id, approach |-> sols[k].approach,
         files |-> sols[k].files, assessment |-> assess(sols[k], randoms[k])]]]

\* a reduce that replaces the candidate kept by a later one of equal score
RECURSIVE bestIndex_LastWins(_, _)
bestIndex_LastWins(sols, n) ==
    IF n = 1 THEN 1
    ELSE LET best == bestIndex_LastWins(sols, n - 1)
         IN  IF sols[n].assessment.score >= sols[best].assessment.score
             THEN n ELSE best

\* validation.solutions.reduce((best, current) => current.assessment.score >
\* best.assessment.score ? current : best) over the first n solutions: the
\* index of the solution kept
RECURSIVE bestIndex(_, _)
bestIndex(sols, n) ==
    IF n = 1 THEN 1
    ELSE LET best == bestIndex(sols, n - 1)
         IN  IF sols[n].assessment.score > sols[best].assessment.score
             THEN n ELSE best

\* a final output that lists every solution as an alternative
generateFinalOutput_AllAlternatives(v) ==
    LET bestSolution == v.solutions[bestIndex(v.solutions, Len(v.solutions))]
    IN  [solution |-> bestSolution,
         quality |-> [score |-> bestSolution.assessment.score,
                      completeness |-> bestSolution.assessment.completeness],
         alternatives |-> v.solutions]

\* generateFinalOutput: the best solution and the others (the solutions of
\* one validation differ in id, so `s !== bestSolution` is inequality)
generateFinalOutput(v) ==
    LET bestSolution == v.solutions[bestIndex(v.solutions, Len(v.solutions))]
        other(x) == x # bestSolution
    IN  [solution |-> bestSolution,
         quality |-> [score |-> bestSolution.assessment.score,
                      completeness |-> bestSolution.assessment.completeness],
         alternatives |-> SelectSeq(v.solutions, other)]

SynthesisInit ==
    /\ StageBase
    /\ issue = NoIssue
    /\ analysis = [r \in Runs |-> <<>>]
    /\ StrategyFresh
    /\ MatchFresh
    /\ generateContext \in [patterns : {1..n : n \in 0..MaxMatched}]
    /\ sessionSolutions = <<>>
    /\ validation = <<>>
    /\ finalOutput = <<>>
    /\ ScoringFresh

\* ---- synthesizeSolutions 793-807
SynthesizeSolutions ==
    /\ sessionSolutions = <<>>
    /\ sessionSolutions' = <<generate(generateContext)>>
    /\ UNCHANGED <<orchVars, sessionsFile, memoryVars, publishVars, coordVars,
                   issue,
                   analysis, strategyContext, strategy, matchIssue, patternStore,
                   matchResult, generateContext, validation, finalOutput,
                   complexityResult, priorityResult>>

\* ---- performQualityAssessment 824-847
PerformQualityAssessment ==
    /\ sessionSolutions # <<>>
    /\ validation = <<>>
    /\ \E randoms \in [DOMAIN sessionSolutions[1] -> RandomMetrics] :
          validation' = <<performQualityAssessment(sessionSolutions[1], randoms)>>
    /\ UNCHANGED <<orchVars, sessionsFile, memoryVars, publishVars, coordVars,
                   issue,
                   analysis, strategyContext, strategy, matchIssue, patternStore,
                   matchResult, generateContext, sessionSolutions, finalOutput,
                   complexityResult, priorityResult>>

\* ---- generateFinalOutput 903-949
GenerateFinalOutput ==
    /\ validation # <<>>
    /\ finalOutput = <<>>
    /\ finalOutput' = <<generateFinalOutput(validation[1])>>
    /\ UNCHANGED <<orchVars, sessionsFile, memoryVars, publishVars, coordVars,
                   issue,
                   analysis, strategyContext, strategy, matchIssue, patternStore,
                   matchResult, generateContext, sessionSolutions, validation,
                   complexityResult, priorityResult>>

SynthesisNext ==
    \/ SynthesizeSolutions
    \/ PerformQualityAssessment
    \/ GenerateFinalOutput

SynthesisSpec == SynthesisInit /\ [][SynthesisNext]_vars

\* ---- assessComplexity and assessPriority --------------------------------------

\* the counts assessComplexity takes from a task: none, some, and more than
\* the 10 from which a factor counts fully.  On these the sum computed in
\* IEEE doubles and the exact sum lie on the same side of every threshold of
\* categorizeComplexity
FactorValues == {0, 4, 25}

\* the tasks assessed: as Issues above, with every indicator and factor
\* varied.  A task without body text has no code snippets, stack traces or
\* references, which are all taken from the body
ScoredIssues ==
    {i \in [critical : BOOLEAN, security : BOOLEAN, userBug : BOOLEAN,
            highLabel : BOOLEAN, textLength : FactorValues,
            technicalTerms : FactorValues, codeSnippets : FactorValues,
            stackTraces : FactorValues, labels : FactorValues,
            references : FactorValues] :
        /\ i.highLabel => i.labels > 0
        /\ i.textLength = 0 =>
               (i.codeSnippets = 0 /\ i.stackTraces = 0 /\ i.references = 0)}

\* assessComplexity: score and level of the factors counted in the task
assessComplexity(i) ==
    [score |-> calculateComplexityScore(i),
     level |-> categorizeComplexity(calculateComplexityScore(i))]

ScoringInit ==
    /\ StageBase
    /\ issue \in ScoredIssues
    /\ analysis = [r \in Runs |-> <<>>]
    /\ StrategyFresh
    /\ MatchFresh
    /\ SynthesisFresh
    /\ complexityResult = <<>>
    /\ priorityResult = <<>>

\* ---- performDeepAnalysis line 225: assessComplexity on the task
AssessComplexity ==
    /\ complexityResult = <<>>
    /\ complexityResult' = <<assessComplexity(issue)>>
    /\ UNCHANGED <<orchVars, sessionsFile, memoryVars, publishVars, coordVars,
                   issue,
                   analysis, strategyContext, strategy, matchIssue, patternStore,
                   matchResult, generateContext, sessionSolutions, validation,
                   finalOutput, priorityResult>>

\* ---- performDeepAnalysis line 234: assessPriority on the task
AssessPriority ==
    /\ priorityResult = <<>>
    /\ priorityResult' = <<assessPriority(issue)>>
    /\ UNCHANGED <<orchVars, sessionsFile, memoryVars, publishVars, coordVars,
                   issue,
                   analysis, strategyContext, strategy, matchIssue, patternStore,
                   matchResult, generateContext, sessionSolutions, validation,
                   finalOutput, complexityResult>>

ScoringNext == AssessComplexity \/ AssessPriority

ScoringSpec == ScoringInit /\ [][ScoringNext]_vars

\* ---- coordinateAgentSwarm -----------------------------------------------------

\* the most agents coordinated
MaxSwarm == 3

\* analysis.domain as classifyDomain yields it: 'testing', the one domain
\* whose name is a discussion keyword, and one of the others
Domains == {"general", "testing"}

\* insight.confidence = 0.6 + Math.random() * 0.4 in hundredths: below, at
\* and above the 0.7 of buildAgentConsensus
ConfidenceValues == {65, 70, 90}

\* the type of the w-th agent of a strategy, as generateStrategy deals them
agentType(w) == agentTypes[((w - 1) % Len(agentTypes)) + 1]

\* the topics identifyDiscussionTopics takes from the findings
\* generateAgentFindings writes for one agent.  The test is case sensitive:
\* 'Complexity level', 'Risk level' and 'Testing strategy' raise nothing,
\* 'Implementation approach' raises solution-approach, and a finding that
\* ends in the domain raises testing-strategy in the testing domain
findingTopics(type, domain) ==
    CASE type = "analyzer" ->
             IF domain = "testing" THEN <<"testing-strategy">> ELSE <<>>
      [] type = "implementer" -> <<"solution-approach">>
      [] type = "tester" ->
             IF domain = "testing" THEN <<"testing-strategy">> ELSE <<>>
      [] OTHER -> <<>>

\* identifyDiscussionTopics over the first n analyses: a Set in insertion order
RECURSIVE identifyDiscussionTopics(_, _, _)
identifyDiscussionTopics(analyses, domain, n) ==
    IF n = 0 THEN <<>>
    ELSE LET rest == identifyDiscussionTopics(analyses, domain, n - 1)
             seen == {rest[k] : k \in DOMAIN rest}
         IN  rest \o SelectSeq(findingTopics(agentType(analyses[n]), domain),
                               LAMBDA t : t \notin seen)

\* facilitateAgentCollaboration: Math.min(3, Math.ceil(agents.length / 2))
collaborationRounds(n) == min(3, (n + 1) \div 2)

\* measureConvergence: totalInsights over the first n discussions
RECURSIVE totalInsights(_, _)
totalInsights(discs, n) ==
    IF n = 0 THEN 0
    ELSE totalInsights(discs, n - 1) + Len(discs[n].insights)

\* the confidences of the first n insights that reached consensus, summed
RECURSIVE insightScore(_, _)
insightScore(insights, n) ==
    IF n = 0 THEN 0
    ELSE insightScore(insights, n - 1)
         + (IF insights[n].consensus THEN insights[n].confidence ELSE 0)

\* measureConvergence: convergenceScore over the first n discussions
RECURSIVE convergenceScore(_, _)
convergenceScore(discs, n) ==
    IF n = 0 THEN 0
    ELSE convergenceScore(discs, n - 1)
         + insightScore(discs[n].insights, Len(discs[n].insights))

\* measureConvergence: the quotient convergenceScore / totalInsights kept as
\* its two terms, in hundredths; 0.5 when there is no insight
measureConvergence(discs) ==
    IF totalInsights(discs, Len(discs)) > 0
    THEN [sum |-> convergenceScore(discs, Len(discs)),
          count |-> totalInsights(discs, Len(discs))]
    ELSE [sum |-> 50, count |-> 1]

\* convergence > bound, bound in hundredths
exceeds(convergence, bound) == convergence.sum > bound * convergence.count

\* buildAgentConsensus: the items of the first n discussions
RECURSIVE consensusItems(_, _, _)
consensusItems(agentCount, discs, n) ==
    IF n = 0 THEN <<>>
    ELSE LET agreed == SelectSeq(discs[n].insights,
                           LAMBDA i : i.consensus /\ i.confidence > 70)
         IN  consensusItems(agentCount, discs, n - 1)
             \o [k \in DOMAIN agreed |->
                    [topic |-> agreed[k].topic,
                     agreement |-> agreed[k].confidence,
                     supportingAgents |->
                         (agentCount * agreed[k].confidence + 99) \div 100]]

\* buildAgentConsensus
buildAgentConsensus(agentCount, collaboration) ==
    [items |-> consensusItems(agentCount, collaboration.discussions,
                              Len(collaboration.discussions)),
     overallConsensus |-> collaboration.convergence,
     readyForImplementation |-> exceeds(collaboration.convergence, 70)]

\* the agents whose executeAgentAnalysis has returned, in the order of agents
collected(pcs) == SelectSeq([w \in DOMAIN pcs |-> w], LAMBDA w : pcs[w] = "done")

CoordinationInit ==
    /\ maxConcurrentSessions = 1
    /\ autoCreatePR = FALSE
    /\ OrchFresh
    /\ sessionsFile = <<>>
    /\ learningEnabled = TRUE
    /\ MemoryFresh
    /\ PublishFresh
    /\ issue = NoIssue
    /\ analysis = [r \in Runs |-> <<>>]
    /\ StagesFresh
    /\ OutputFresh
    /\ swarmSize \in 1..MaxSwarm
    /\ swarmDomain \in Domains
    /\ workerPc = [w \in 1..swarmSize |-> "pending"]
    /\ coordPc = "individual-analysis"
    /\ phases = <<>>
    /\ discussions = <<>>
    /\ consensusResult = <<>>
    /\ swarmStatus = "coordinating"

\* ---- executeAgentAnalysis 603-612 of agent w returns
WorkerAnalysisDone(w) ==
    /\ workerPc[w] = "pending"
    /\ workerPc' = [workerPc EXCEPT ![w] = "done"]
    /\ UNCHANGED <<orchVars, sessionsFile, memoryVars, publishVars, issue,
                   analysis, stageVars, swarmSize, swarmDomain, coordPc, phases,
                   discussions, consensusResult, swarmStatus, outputVars>>

\* ---- executeAgentAnalysis of agent w throws
WorkerAnalysisFail(w) ==
    /\ workerPc[w] = "pending"
    /\ workerPc' = [workerPc EXCEPT ![w] = "failed"]
    /\ UNCHANGED <<orchVars, sessionsFile, memoryVars, publishVars, issue,
                   analysis, stageVars, swarmSize, swarmDomain, coordPc, phases,
                   discussions, consensusResult, swarmStatus, outputVars>>

\* Promise.all replaced by a collection that resumes on the first analysis
AnalysesCollected_First ==
    /\ coordPc = "individual-analysis"
    /\ \E w \in DOMAIN workerPc : workerPc[w] = "done"
    /\ phases' = Append(phases, [name |-> "individual-analysis",
                                 results |-> collected(workerPc)])
    /\ coordPc' = "collaboration"
    /\ UNCHANGED <<orchVars, sessionsFile, memoryVars, publishVars, issue,
                   analysis, stageVars, swarmSize, swarmDomain, workerPc,
                   discussions, consensusResult, swarmStatus, outputVars>>

\* ---- coordinateAgentSwarm 572-583: Promise.all resolves with the analysis
\* of every agent, the first phase is recorded and the collaboration begun
AnalysesCollected ==
    /\ coordPc = "individual-analysis"
    /\ \A w \in DOMAIN workerPc : workerPc[w] = "done"
    /\ phases' = Append(phases, [name |-> "individual-analysis",
                                 results |-> collected(workerPc)])
    /\ coordPc' = "collaboration"
    /\ UNCHANGED <<orchVars, sessionsFile, memoryVars, publishVars, issue,
                   analysis, stageVars, swarmSize, swarmDomain, workerPc,
                   discussions, consensusResult, swarmStatus, outputVars>>

\* a rejected analysis dropped, the phase recorded with the other analyses
AnalysisPhaseFails_Tolerated ==
    /\ coordPc = "individual-analysis"
    /\ \E w \in DOMAIN workerPc : workerPc[w] = "failed"
    /\ phases' = Append(phases, [name |-> "individual-analysis",
                                 results |-> collected(workerPc)])
    /\ coordPc' = "collaboration"
    /\ UNCHANGED <<orchVars, sessionsFile, memoryVars, publishVars, issue,
                   analysis, stageVars, swarmSize, swarmDomain, workerPc,
                   discussions, consensusResult, swarmStatus, outputVars>>

\* ---- coordinateAgentSwarm 572 and spawnHiveMind 194-204: Promise.all rejects
\* with the first analysis that throws, coordinateAgentSwarm and the await of
\* line 153 throw, and the catch block marks the session failed
AnalysisPhaseFails ==
    /\ coordPc = "individual-analysis"
    /\ \E w \in DOMAIN workerPc : workerPc[w] = "failed"
    /\ coordPc' = "thrown"
    /\ swarmStatus' = "failed"
    /\ UNCHANGED <<orchVars, sessionsFile, memoryVars, publishVars, issue,
                   analysis, stageVars, swarmSize, swarmDomain, workerPc, phases,
                   discussions, consensusResult, outputVars>>

\* ---- facilitateAgentCollaboration 683-689: one simulateAgentDiscussion
\* 697-713 over the collected analyses, its insights drawn by Math.random
DiscussionRound ==
    /\ coordPc = "collaboration"
    /\ Len(discussions) < collaborationRounds(swarmSize)
    /\ LET analyses == phases[1].results
           topics == identifyDiscussionTopics(analyses, swarmDomain, Len(analyses))
       IN  \E draws \in [DOMAIN topics ->
                            [consensus : BOOLEAN, confidence : ConfidenceValues]] :
              discussions' = Append(discussions,
                  [round |-> Len(discussions) + 1,
                   analyses |-> analyses,
                   insights |-> [k \in DOMAIN topics |->
                                    [topic |-> topics[k],
                                     consensus |-> draws[k].consensus,
                                     confidence |-> draws[k].confidence]]])
    /\ UNCHANGED <<orchVars, sessionsFile, memoryVars, publishVars, issue,
                   analysis, stageVars, swarmSize, swarmDomain, workerPc, coordPc,
                   phases, consensusResult, swarmStatus, outputVars>>

\* ---- facilitateAgentCollaboration 690-695 and coordinateAgentSwarm 583-592:
\* the rounds are over, the collaboration is recorded with its convergence and
\* buildAgentConsensus is run on it
CollaborationDone ==
    /\ coordPc = "collaboration"
    /\ Len(discussions) = collaborationRounds(swarmSize)
    /\ LET collaboration ==
               [rounds |-> collaborationRounds(swarmSize),
                discussions |-> discussions,
                convergence |-> measureConvergence(discussions)]
       IN  /\ phases' = Append(phases, [name |-> "collaboration",
                                        results |-> collaboration])
           /\ consensusResult' = <<buildAgentConsensus(swarmSize, collaboration)>>
    /\ coordPc' = "consensus"
    /\ UNCHANGED <<orchVars, sessionsFile, memoryVars, publishVars, issue,
                   analysis, stageVars, swarmSize, swarmDomain, workerPc,
                   discussions, swarmStatus, outputVars>>

\* ---- coordinateAgentSwarm 592-600: the consensus is recorded and the
\* coordination returned
ConsensusDone ==
    /\ coordPc = "consensus"
    /\ phases' = Append(phases, [name |-> "consensus",
                                 results |-> consensusResult[1]])
    /\ coordPc' = "returned"
    /\ UNCHANGED <<orchVars, sessionsFile, memoryVars, publishVars, issue,
                   analysis, stageVars, swarmSize, swarmDomain, workerPc,
                   discussions, consensusResult, swarmStatus, outputVars>>

\* a session that fails when the consensus is not ready for implementation
CoordinationReturn_Gated ==
    /\ coordPc = "returned"
    /\ swarmStatus = "coordinating"
    /\ swarmStatus' = IF consensusResult[1].readyForImplementation
                      THEN "synthesizing" ELSE "failed"
    /\ UNCHANGED <<orchVars, sessionsFile, memoryVars, publishVars, issue,
                   analysis, stageVars, swarmSize, swarmDomain, workerPc, coordPc,
                   phases, discussions, consensusResult, outputVars>>

\* ---- spawnHiveMind 154-157: the await of coordinateAgentSwarm resumes and
\* the session enters the synthesis
CoordinationReturn ==
    /\ coordPc = "returned"
    /\ swarmStatus = "coordinating"
    /\ swarmStatus' = "synthesizing"
    /\ UNCHANGED <<orchVars, sessionsFile, memoryVars, publishVars, issue,
                   analysis, stageVars, swarmSize, swarmDomain, workerPc, coordPc,
                   phases, discussions, consensusResult, outputVars>>

\* ---- spawnHiveMind 158-161: synthesizeSolutions returns the candidates and
\* the session enters the validation
SwarmSynthesize ==
    /\ swarmStatus = "synthesizing"
    /\ sessionSolutions' = <<generate(generateContext)>>
    /\ swarmStatus' = "validating"
    /\ UNCHANGED <<orchVars, sessionsFile, memoryVars, publishVars, issue,
                   analysis, strategyContext, strategy, matchIssue, patternStore,
                   matchResult, generateContext, validation, finalOutput,
                   complexityResult, priorityResult, swarmSize, swarmDomain,
                   workerPc, coordPc, phases, discussions, consensusResult,
                   outputVars>>

CoordinationNext ==
    \/ \E w \in DOMAIN workerPc : WorkerAnalysisDone(w)
    \/ \E w \in DOMAIN workerPc : WorkerAnalysisFail(w)
    \/ AnalysesCollected
    \/ AnalysisPhaseFails
    \/ DiscussionRound
    \/ CollaborationDone
    \/ ConsensusDone
    \/ CoordinationReturn
    \/ SwarmSynthesize

CoordinationSpec == CoordinationInit /\ [][CoordinationNext]_vars

\* the event loop runs every continuation that is ready
CoordinationFairSpec == CoordinationSpec /\ WF_vars(CoordinationNext)


\* ---- integrateLearnedPatterns -------------------------------------------------

\* calculateOverallQuality: totalScore / assessments.length kept as its two
\* terms, the scores in 1/700; 0 for no assessment
calculateOverallQuality(sols) ==
    IF Len(sols) = 0 THEN [sum |-> 0, count |-> 1]
    ELSE [sum |-> sumOver([k \in DOMAIN sols |-> sols[k].assessment.score],
                          DOMAIN sols),
          count |-> Len(sols)]

\* LearningOptimizationNetwork.extract with the records it builds: 560 is
\* the 0.8 of line 1586 in 1/700
extractLearnings(s, v) ==
    LET overallQuality == calculateOverallQuality(v.solutions)
    IN  [patterns |->
             IF overallQuality.sum > 560 * overallQuality.count
             THEN <<[id |-> patternId(s), type |-> "successful-approach",
                     approach |-> v.solutions[1].approach,
                     successRate |-> 100, confidence |-> overallQuality]>>
             ELSE <<>>,
         knowledge |->
             [k \in DOMAIN v.solutions |->
                 [id |-> knowledgeId(s, k), type |-> "solution-pattern",
                  pattern |-> v.solutions[k].approach,
                  effectiveness |-> v.solutions[k].assessment.score]]]

\* learning that does not look at options.learningEnabled
integrateLearnedPatterns_Always(enabled, s, v) == <<extractLearnings(s, v)>>

\* integrateLearnedPatterns 872-880: nothing when learning is disabled, else
\* the learnings extract returns
integrateLearnedPatterns(enabled, s, v) ==
    IF ~enabled THEN <<>> ELSE <<extractLearnings(s, v)>>

\* the ids of a list of records
idsOf(records) == {records[k].id : k \in DOMAIN records}

\* the session whose learning stage is run, and a pattern an earlier session
\* left in patterns.json
LearningSession == 1

EarlierPattern == patternId(2)

LearningInit ==
    /\ maxConcurrentSessions = 1
    /\ autoCreatePR = FALSE
    /\ OrchFresh
    /\ sessionsFile = <<>>
    /\ learningEnabled \in BOOLEAN
    /\ enginePc = [s \in Sessions |->
                      IF s = LearningSession THEN "learning" ELSE "unbuilt"]
    /\ patternsFile \in {{}, {EarlierPattern}}
    /\ statePatterns = [s \in Sessions |->
                           IF s = LearningSession THEN patternsFile ELSE {}]
    /\ stateKnowledge = [s \in Sessions |-> {}]
    /\ stateAgents = [s \in Sessions |-> <<>>]
    /\ sessionAgents = [s \in Sessions |-> <<>>]
    /\ knowledgeFile = {}
    /\ learnedPatterns = {}
    /\ learnedKnowledge = {}
    /\ overlapped = FALSE
    /\ PublishFresh
    /\ issue = NoIssue
    /\ analysis = [r \in Runs |-> <<>>]
    /\ StrategyFresh
    /\ MatchFresh
    /\ ScoringFresh
    /\ CoordinationFresh
    /\ OutputFresh
    /\ finalOutput = <<>>
    /\ \E n \in 0..MaxMatched :
          /\ generateContext = [patterns |-> 1..n]
          /\ sessionSolutions = <<generate(generateContext)>>
          /\ \E randoms \in [1..solutionCount(1..n) -> RandomMetrics] :
                validation = <<performQualityAssessment(sessionSolutions[1],
                                                        randoms)>>

\* ---- spawnHiveMind 165-169 and integrateLearnedPatterns 872-897: the
\* learnings are put into the engine's maps, persistLearnings 1060-1075
\* writes both maps out whole (written: the number of files written before a
\* write fails, which is logged only), and the session is completed
IntegrateLearnedPatterns ==
    /\ enginePc[LearningSession] = "learning"
    /\ sessionLearnings' = integrateLearnedPatterns(learningEnabled, LearningSession,
                                             validation[1])
    /\ IF sessionLearnings' = <<>>
       THEN UNCHANGED <<statePatterns, stateKnowledge, patternsFile,
                        knowledgeFile, learnedPatterns, learnedKnowledge>>
       ELSE \E written \in 0..2 :
              LET patterns == statePatterns[LearningSession]
                                  \cup idsOf(sessionLearnings'[1].patterns)
                  knowledge == stateKnowledge[LearningSession]
                                  \cup idsOf(sessionLearnings'[1].knowledge)
              IN  /\ statePatterns' = [statePatterns EXCEPT
                                          ![LearningSession] = patterns]
                  /\ stateKnowledge' = [stateKnowledge EXCEPT
                                           ![LearningSession] = knowledge]
                  /\ patternsFile' = IF written >= 1 THEN patterns
                                                     ELSE patternsFile
                  /\ knowledgeFile' = IF written = 2 THEN knowledge
                                                     ELSE knowledgeFile
                  /\ learnedPatterns' = learnedPatterns \cup
                        (IF written >= 1 THEN idsOf(sessionLearnings'[1].patterns)
                                         ELSE {})
                  /\ learnedKnowledge' = learnedKnowledge \cup
                        (IF written = 2 THEN idsOf(sessionLearnings'[1].knowledge)
                                        ELSE {})
    /\ enginePc' = [enginePc EXCEPT
                       ![LearningSession] = StageAfter[enginePc[LearningSession]]]
    /\ UNCHANGED <<learningEnabled, stateAgents, sessionAgents, overlapped,
                   sessionsFile, orchVars, publishVars, issue, analysis,
                   stageVars, swarmSize, swarmDomain, workerPc, coordPc, phases,
                   discussions, consensusResult, swarmStatus, actionsOutput>>

LearningNext == IntegrateLearnedPatterns

LearningSpec == LearningInit /\ [][LearningNext]_vars


\* ---- matchPatterns into synthesizeSolutions ------------------------------------

\* ---- synthesizeSolutions 793-807 on session.analysis.patterns, the patterns
\* matchPatterns returned for the task (performDeepAnalysis line 228)
SynthesizeMatched ==
    /\ matchResult # <<>>
    /\ sessionSolutions = <<>>
    /\ generateContext' =
           [patterns |-> {matchResult[1][k].id : k \in DOMAIN matchResult[1]}]
    /\ sessionSolutions' = <<generate(generateContext')>>
    /\ UNCHANGED <<orchVars, sessionsFile, memoryVars, publishVars, coordVars,
                   issue, analysis, strategyContext, strategy, matchIssue,
                   patternStore, matchResult, validation, finalOutput,
                   complexityResult, priorityResult>>

MatchedSynthesisNext == MatchPatterns \/ SynthesizeMatched

MatchedSynthesisSpec == MatchInit /\ [][MatchedSynthesisNext]_vars


\* ---- ClaudeFlowMain.outputResults ----------------------------------------------

\* outputResults 163-175: pr_created is !!result.githubResult?.pullRequest,
\* true for every object createPullRequest returned, the one of its 422
\* branch ({ error: 'Branch exists', branch }) included; pr_number is the
\* number property of that object
outputResults(publishResult) ==
    [success |-> TRUE,
     pr_created |-> publishResult.pullRequest # "null",
     pr_number |-> IF publishResult.pullRequest = "created" THEN "number"
                                                           ELSE "undefined"]

\* ---- claude-flow-main 93-110: resolveIssue has returned the result with the
\* githubResult of publishToGitHub, and outputResults writes the output
OutputResults ==
    /\ published # <<>>
    /\ actionsOutput = <<>>
    /\ actionsOutput' = <<outputResults(published[1].githubResult)>>
    /\ UNCHANGED <<orchVars, sessionsFile, memoryVars, publishVars, issue,
                   analysis, stageVars, swarmSize, swarmDomain, workerPc, coordPc,
                   phases, discussions, consensusResult, swarmStatus,
                   sessionLearnings>>

OutputNext == PublishToGitHub \/ OutputResults

OutputSpec == PublishInit /\ [][OutputNext]_vars


\* ======================================================================
\* Claims
\* ======================================================================

Terminal == {"completed", "failed"}

\* the sessions that were accepted and have not reached completed or failed
NonTerminalSessions ==
    {c \in Calls : orchestrationId[c] \in activeSessions /\ status[c] \notin Terminal}

\* C1: in every reachable state the number of accepted sessions that have not
\* reached completed or failed is at most maxConcurrentSessions.
C1_ConcurrencyCap == Cardinality(NonTerminalSessions) <= maxConcurrentSessions

\* C2: when maxConcurrentSessions calls have been submitted and none has
\* settled, the next submission fails with the capacity error, wherever the
\* earlier calls are (also while they await the task fetch).
C2_OverflowRejected ==
    [][\A c \in Calls :
          (/\ pc[c] = "idle" /\ pc'[c] # "idle"
           /\ Cardinality({d \in Calls : pc[d] # "idle"}) = maxConcurrentSessions
           /\ \A d \in Calls : pc[d] # "done")
          => error'[c] = "capacity"]_vars

\* C3: every settled resolveIssue call has exactly one terminal record under
\* its session id in the results ledger, completed or failed.
C3_OneTerminalRecord ==
    \A c \in Calls :
        pc[c] = "done" =>
            /\ orchestrationId[c] \in DOMAIN results
            /\ results[orchestrationId[c]].issueNumber = c
            /\ results[orchestrationId[c]].status \in Terminal

\* C4: a session that has reached a terminal state has had the publisher
\* invoked exactly once: publishToGitHub (and not reportErrorToGitHub) when
\* completed, reportErrorToGitHub (and not publishToGitHub) when failed.
C4_PublisherOnce ==
    \A c \in Calls :
        /\ publishCalls[c] + reportCalls[c] <= 1
        /\ status[c] = "completed" => publishCalls[c] = 1 /\ reportCalls[c] = 0
        /\ status[c] = "failed" => reportCalls[c] = 1 /\ publishCalls[c] = 0

C4_Witness ==
    \E c, d \in Calls :
        /\ pc[c] = "done" /\ status[c] = "completed" /\ publishCalls[c] = 1
        /\ pc[d] = "done" /\ status[d] = "failed" /\ reportCalls[d] = 1

\* the fixed order of the session states of the engine
StageOrder == <<"initializing", "analyzing", "spawning", "coordinating",
                "synthesizing", "validating", "learning", "completed">>

ImmediateSuccessor(a, b) ==
    \E i \in 1..(Len(StageOrder) - 1) : StageOrder[i] = a /\ StageOrder[i + 1] = b

\* C5: every change of an engine session's status is a step to the immediate
\* successor in the fixed order, or a step from a non-terminal state to
\* failed (the session enters at initializing).
C5_ForwardOnly ==
    [][\A c \in Calls :
          engineStatus'[c] # engineStatus[c] =>
              \/ engineStatus[c] = "none" /\ engineStatus'[c] = "initializing"
              \/ ImmediateSuccessor(engineStatus[c], engineStatus'[c])
              \/ /\ engineStatus[c] \notin Terminal \cup {"none"}
                 /\ engineStatus'[c] = "failed"]_vars

\* C6: completed and failed are absorbing, in the engine and in the
\* orchestrator: a terminal status never changes again.
C6_TerminalAbsorbing ==
    [][\A c \in Calls :
          /\ engineStatus[c] \in Terminal => engineStatus'[c] = engineStatus[c]
          /\ status[c] \in Terminal => status'[c] = status[c]]_vars

\* the errors raised by a stage of the pipeline once the session is registered
StageErrors == {"stage", "process", "publish"}

C8_PublishFailureTolerated ==
    \A c \in Calls :
        publishCalls[c] = 1 /\ pc[c] \in {"cleanup", "done"} =>
            /\ status[c] = "completed"
            /\ error[c] = "none"
            /\ pc[c] = "done" => outcome[c] = "success"
            /\ orchestrationId[c] \in DOMAIN results =>
                   /\ results[orchestrationId[c]].success
                   /\ results[orchestrationId[c]].status = "completed"
                   /\ results[orchestrationId[c]].error = "none"

C8_Witness ==
    \E c \in Calls :
        /\ pc[c] = "done" /\ githubResult[c].error /\ outcome[c] = "success"
        /\ orchestrationId[c] \in DOMAIN results
        /\ results[orchestrationId[c]].success

\* C9: a submission made while the active-session count is at or above the
\* maximum is rejected at once with the capacity error: no fetch, no comment,
\* no engine, the two maps and the ledgers unchanged; and a rejected
\* submission is never run later.
C9_RejectedNotQueued ==
    [][\A c \in Calls :
          /\ (/\ pc[c] = "idle" /\ pc'[c] # "idle"
              /\ Cardinality(activeSessions) >= maxConcurrentSessions)
             => /\ pc'[c] = "done"
                /\ error'[c] = "capacity"
                /\ outcome'[c] = "thrown"
                /\ UNCHANGED <<activeSessions, engines, results, sessionsFile,
                               fetchCalls, reportCalls, publishCalls,
                               persistCalls, sessionId>>
          /\ error[c] = "capacity"
             => /\ pc'[c] = "done"
                /\ fetchCalls'[c] = 0 /\ reportCalls'[c] = 0
                /\ publishCalls'[c] = 0 /\ persistCalls'[c] = 0
                /\ sessionId'[c] = 0 /\ status'[c] = "none"
                /\ orchestrationId'[c] \notin
                       activeSessions' \cup engines' \cup DOMAIN results']_vars

C9_Witness ==
    \E c, d \in Calls :
        /\ pc[c] = "done" /\ error[c] = "capacity" /\ outcome[c] = "thrown"
        /\ pc[d] = "done" /\ outcome[d] = "success"

\* the ids handed to sessions so far
AssignedIds(c) == {orchestrationId[c], sessionId[c]} \ {0}

IdsDistinct ==
    /\ \A c, d \in Calls : c # d => AssignedIds(c) \cap AssignedIds(d) = {}
    /\ \A c \in Calls : sessionId[c] # 0 => sessionId[c] # orchestrationId[c]

\* C10: an assigned session id never changes and is never given to another
\* session (orchestration or engine), and a ledger record is never replaced
\* by the record of another session.
C10_IdsNeverReused ==
    [][/\ IdsDistinct'
       /\ \A c \in Calls :
            /\ orchestrationId[c] # 0 => orchestrationId'[c] = orchestrationId[c]
            /\ sessionId[c] # 0 => sessionId'[c] = sessionId[c]
       /\ \A k \in DOMAIN results :
            k \in DOMAIN results' /\ results'[k].issueNumber = results[k].issueNumber
       /\ \A k \in DOMAIN sessionsFile :
            /\ k \in DOMAIN sessionsFile'
            /\ sessionsFile'[k].issueNumber = sessionsFile[k].issueNumber]_vars

C10_Witness ==
    /\ \A c \in Calls : orchestrationId[c] # 0 /\ sessionId[c] # 0
    /\ Cardinality(DOMAIN results) = NumCalls
    /\ Cardinality(DOMAIN sessionsFile) = NumCalls

\* C11: the knowledge store is durable across sessions: when the sessions ran
\* one after another, each on a freshly constructed engine, every pattern and
\* every knowledge record that the learning stage of some session has
\* persisted is still in the durable store.
C11_StoreDurable ==
    ~overlapped =>
        /\ learnedPatterns \subseteq patternsFile
        /\ learnedKnowledge \subseteq knowledgeFile

\* C12: while two sessions run concurrently, a learning write keeps every
\* pattern and knowledge record already in the durable store, and adds only
\* records whose ids the writing session generated.
C12_RecordLevelWrites ==
    [][\A s \in Sessions :
          (/\ enginePc[s] = "learning" /\ enginePc'[s] # "learning"
           /\ \E t \in Sessions \ {s} : Live(t))
          => /\ patternsFile \subseteq patternsFile'
             /\ knowledgeFile \subseteq knowledgeFile'
             /\ patternsFile' \ patternsFile \subseteq {patternId(s)}
             /\ knowledgeFile' \ knowledgeFile \subseteq
                    {knowledgeId(s, j) : j \in 1..MaxSolutions}]_vars

\* C13: the session ledgers are append-only under concurrency: whatever the
\* interleaving of the sessions, a write to results.json or to sessions.json
\* keeps every record already present as it is and adds nothing but the
\* record of the writing call's own session.
C13_LedgerAppendOnly ==
    [][/\ \A k \in DOMAIN results :
              k \in DOMAIN results' /\ results'[k] = results[k]
       /\ \A k \in DOMAIN sessionsFile :
              k \in DOMAIN sessionsFile' /\ sessionsFile'[k] = sessionsFile[k]
       /\ \A c \in Calls :
              pc'[c] # pc[c] =>
                  /\ DOMAIN results' \subseteq DOMAIN results \cup {orchestrationId[c]}
                  /\ DOMAIN sessionsFile' \subseteq DOMAIN sessionsFile \cup {sessionId[c]}
                  /\ results' # results =>
                         results'[orchestrationId[c]].issueNumber = c
                  /\ sessionsFile' # sessionsFile =>
                         sessionsFile'[sessionId[c]].issueNumber = c]_vars

\* every call has settled, under a limit that lets them run interleaved, and
\* each has its record in both ledgers
C13_Witness ==
    /\ Cardinality(DOMAIN results) = NumCalls
    /\ Cardinality(DOMAIN sessionsFile) = NumCalls
    /\ \A c \in Calls : pc[c] = "done"
    /\ maxConcurrentSessions > 1

\* C14: a pull request is opened only for a good candidate: createPullRequest
\* is invoked, and githubResult carries a pull request, only if autoCreatePR
\* is set and the quality score exceeds 0.8 and the completeness exceeds 0.9
\* and the artifacts hold at least one file.
C14_PRGate ==
    published # <<>> =>
        ((published[1].createPullRequestCalls > 0
            \/ published[1].githubResult.pullRequest # "null")
         => /\ autoCreatePR
            /\ processedResult.score > 80
            /\ processedResult.completeness > 90
            /\ processedResult.files > 0)

\* publishToGitHub has invoked createPullRequest
C14_Witness ==
    /\ published # <<>>
    /\ published[1].createPullRequestCalls = 1
    /\ published[1].githubResult.pullRequest = "created"

\* C15: when every awaited call eventually returns or throws, every accepted
\* session eventually reaches completed or failed and is then no longer in
\* the active-session map: no accepted session stays non-terminal, or keeps
\* its slot, forever.
C15_EventuallyReleased ==
    \A c \in Calls :
        (orchestrationId[c] \in activeSessions)
            ~> (status[c] \in Terminal /\ orchestrationId[c] \notin activeSessions)

\* an accepted session has completed and another has failed, both released
C15_Witness ==
    \E c, d \in Calls :
        /\ pc[c] = "done" /\ status[c] = "completed"
        /\ pc[d] = "done" /\ status[d] = "failed"
        /\ activeSessions = {}

\* the names of the stages a session can fail in: the statuses of the
\* orchestration session and of the engine session before a terminal one
StageNames ==
    {"initializing", "executing", "processing", "publishing", "analyzing",
     "spawning", "coordinating", "synthesizing", "validating", "learning"}

\* an error record that has a message and names a stage
NamesStage(e) ==
    /\ "message" \in DOMAIN e
    /\ "stage" \in DOMAIN e
    /\ e.stage \in StageNames

\* C16: the record of a failed session, in the results ledger and in the
\* engine's session ledger, holds an error with a human-readable message and
\* the name of the stage that failed.
C16_ErrorNamesStage ==
    \A c \in Calls :
        /\ (/\ orchestrationId[c] \in DOMAIN results
            /\ results[orchestrationId[c]].status = "failed")
           => NamesStage(results[orchestrationId[c]].error)
        /\ (/\ sessionId[c] \in DOMAIN sessionsFile
            /\ sessionsFile[sessionId[c]].status = "failed")
           => NamesStage(sessionsFile[sessionId[c]].error)

\* C17: a failure never rolls back what an earlier stage persisted: the step
\* that records a session as failed leaves patterns.json, knowledge.json and
\* the engine's pattern and knowledge maps as they are, and keeps every
\* session record of sessions.json but the failed session's own.
C17_FailureKeepsPersisted ==
    [][\A s \in Sessions :
          (enginePc[s] # "thrown" /\ enginePc'[s] = "thrown")
          => /\ patternsFile' = patternsFile
             /\ knowledgeFile' = knowledgeFile
             /\ statePatterns' = statePatterns
             /\ stateKnowledge' = stateKnowledge
             /\ \A k \in DOMAIN sessionsFile :
                    /\ k \in DOMAIN sessionsFile'
                    /\ k # s => sessionsFile'[k] = sessionsFile[k]]_vars

\* a session has failed after its learning stage wrote its pattern and its
\* knowledge record, and is recorded as failed
C17_Witness ==
    \E s \in Sessions :
        /\ enginePc[s] = "thrown"
        /\ patternId(s) \in patternsFile
        /\ knowledgeId(s, 1) \in knowledgeFile
        /\ s \in DOMAIN sessionsFile
        /\ sessionsFile[s].status = "failed"

\* the statuses under which a session runs a stage other than learning
\* ('completed' is the status during generateFinalOutput)
NonLearningStages ==
    {"analyzing", "spawning", "coordinating", "synthesizing", "validating",
     "completed"}

\* C18: only the learning stage mutates patterns and knowledge: a step by
\* which a session leaves its analyzing, spawning, coordinating, synthesizing
\* or validating stage or its final-output generation, by returning or by
\* raising, leaves the engines' pattern and knowledge maps and patterns.json
\* and knowledge.json unchanged.
C18_OnlyLearningWrites ==
    [][\A s \in Sessions :
          (enginePc[s] \in NonLearningStages /\ enginePc'[s] # enginePc[s])
          => /\ statePatterns' = statePatterns
             /\ stateKnowledge' = stateKnowledge
             /\ patternsFile' = patternsFile
             /\ knowledgeFile' = knowledgeFile]_vars

\* a session whose engine loaded another session's pattern has run every
\* stage up to learning, and a session with learnings has returned
C18_Witness ==
    \E s, t \in Sessions :
        /\ s # t
        /\ enginePc[s] = "learning"
        /\ patternId(t) \in statePatterns[s]
        /\ enginePc[t] = "returned"
        /\ stateKnowledge[t] # {}

\* C20: workers are ephemeral: once a session has ended, none of its agents
\* is in the engine's agent registry any more, and a persisted session
\* record holds the number of agents but no agent object.
C20_WorkersEphemeral ==
    \A s \in Sessions :
        /\ enginePc[s] \in {"returned", "thrown"} =>
               DOMAIN sessionAgents[s] \cap DOMAIN stateAgents[s] = {}
        /\ s \in DOMAIN sessionsFile =>
               {sessionsFile[s].agents[i] : i \in DOMAIN sessionsFile[s].agents} = {}

\* C19: analysis is deterministic: two runs of the analysis on the same task
\* with the same knowledge store yield the same Analysis (complexity,
\* priority, matched patterns and classification).
C19_AnalysisDeterministic ==
    (analysis[1] # <<>> /\ analysis[2] # <<>>) => analysis[1] = analysis[2]

\* the worker count the tier table of the specification gives
TierCount(tier) ==
    CASE tier = "low" -> 2
      [] tier = "medium" -> 4
      [] tier = "high" -> 6
      [] tier = "very-high" -> 8

\* C21 as stated: for every complexity tier and every maxWorkers value the
\* planned worker count lies within [2, maxWorkers] and equals the tier table
\* value whenever maxWorkers does not constrain it.
C21_CountWithinBounds ==
    strategy # <<>> =>
        LET n == Len(strategy[1].agents)
        IN  /\ 2 <= n
            /\ n <= strategyContext.maxAgents
            /\ TierCount(strategyContext.complexity) <= strategyContext.maxAgents
                   => n = TierCount(strategyContext.complexity)

\* C21 amended: the planned worker count is the smaller of the tier table
\* value and maxWorkers; it lies within [2, maxWorkers] whenever maxWorkers
\* is at least 2, and with maxWorkers = 1 one worker is planned.
C21_CountClamped ==
    strategy # <<>> =>
        LET n == Len(strategy[1].agents)
            limit == strategyContext.maxAgents
            table == TierCount(strategyContext.complexity)
        IN  /\ n = (IF table <= limit THEN table ELSE limit)
            /\ limit >= 2 => (2 <= n /\ n <= limit)
            /\ limit = 1 => n = 1

\* a very-high task planned under a limit between 2 and 7
C21_Witness ==
    /\ strategy # <<>>
    /\ strategyContext.complexity = "very-high"
    /\ strategyContext.maxAgents \in 2..7
    /\ Len(strategy[1].agents) = strategyContext.maxAgents

WeightedAverage(issue1, signature) ==
    (IF issue1.domain = <<signature.domain>> THEN 1440 ELSE 480)
    + max(0, 3 - abs(complexityMap(issue1.complexity[1])
                     - complexityMap(signature.complexity))) * 320
    + (overlap(issue1.keyTerms[1], signature.keyTerms) * 1440)
          \div max(Len(issue1.keyTerms[1]), Len(signature.keyTerms))
    + (IF issue1.category = <<signature.category>> THEN 960 ELSE 0)

HasAllFields(issue1) ==
    /\ issue1.domain # <<>>
    /\ issue1.complexity # <<>>
    /\ issue1.keyTerms # <<>>
    /\ issue1.keyTerms # << <<>> >>
    /\ issue1.category # <<>>

\* C23: when two stored Patterns match the task with similarity 0.75 and 0.9,
\* both appear in Analysis.patterns and the one with 0.9 comes first, whatever
\* their success rates.
C23_BothMatchedBestFirst ==
    (matchResult # <<>> /\ HasAllFields(matchIssue)) =>
        \A a \in DOMAIN patternStore : \A b \in DOMAIN patternStore :
            (/\ WeightedAverage(matchIssue, patternStore[a].signature) = 3600
             /\ WeightedAverage(matchIssue, patternStore[b].signature) = 4320)
            => \E k \in DOMAIN matchResult[1] : \E j \in DOMAIN matchResult[1] :
                   /\ k < j
                   /\ matchResult[1][k].id = b
                   /\ matchResult[1][j].id = a

\* C24: the synthesizer produces exactly min(3, matchedPatternCount + 1)
\* candidates, so at least one when no pattern matched and never more than
\* three, and the candidates carry pairwise distinct approach labels.
C24_CandidateCount ==
    sessionSolutions # <<>> =>
        LET sols == sessionSolutions[1]
            n == Cardinality(generateContext.patterns)
        IN  /\ Len(sols) = (IF n + 1 < 3 THEN n + 1 ELSE 3)
            /\ Len(sols) >= 1
            /\ Len(sols) <= 3
            /\ \A k \in DOMAIN sols : \A j \in DOMAIN sols :
                   k # j => sols[k].approach # sols[j].approach

\* three matched patterns: the limit of three candidates applies
C24_Witness ==
    /\ sessionSolutions # <<>>
    /\ Cardinality(generateContext.patterns) = 3
    /\ Len(sessionSolutions[1]) = 3

\* C25: the best candidate has the greatest aggregate score, and among
\* candidates of equal greatest score the one generated first is selected.
C25_BestIsFirstMaximum ==
    finalOutput # <<>> =>
        LET sols == validation[1].solutions
            best == finalOutput[1].solution
        IN  \E k \in DOMAIN sols :
                /\ sols[k] = best
                /\ \A j \in DOMAIN sols :
                       sols[j].assessment.score <= best.assessment.score
                /\ \A j \in 1..(k - 1) :
                       sols[j].assessment.score < best.assessment.score

\* the first two of three candidates share the greatest score and the first
\* is selected
C25_Witness ==
    /\ finalOutput # <<>>
    /\ Len(validation[1].solutions) = 3
    /\ validation[1].solutions[1].assessment.score
           = validation[1].solutions[2].assessment.score
    /\ validation[1].solutions[3].assessment.score
           < validation[1].solutions[1].assessment.score
    /\ finalOutput[1].solution = validation[1].solutions[1]

\* C26: the final output partitions the candidates: best is one of them, the
\* alternatives are exactly the others, and best together with the
\* alternatives are all candidates.
C26_OutputPartitionsCandidates ==
    finalOutput # <<>> =>
        LET sols == validation[1].solutions
            all == {sols[k] : k \in DOMAIN sols}
            best == finalOutput[1].solution
            alts == finalOutput[1].alternatives
            alternatives == {alts[k] : k \in DOMAIN alts}
        IN  /\ best \in all
            /\ best \notin alternatives
            /\ alternatives = all \ {best}
            /\ Len(alts) = Len(sols) - 1
            /\ alternatives \cup {best} = all

\* three candidates, the second is best, one alternative has the same score
\* as another
C26_Witness ==
    /\ finalOutput # <<>>
    /\ Len(validation[1].solutions) = 3
    /\ finalOutput[1].solution = validation[1].solutions[2]
    /\ Len(finalOutput[1].alternatives) = 2
    /\ validation[1].solutions[1].assessment.score
           = validation[1].solutions[3].assessment.score

\* C27: every assessment has the seven quality dimensions, each within
\* [0, 1], and its aggregate score is their arithmetic mean, hence within
\* [0, 1] (metrics in hundredths, scores in 1/700).
C27_ScoreIsMeanOfSeven ==
    validation # <<>> =>
        \A k \in DOMAIN validation[1].solutions :
            LET a == validation[1].solutions[k].assessment
            IN  /\ DOMAIN a.metrics =
                       {"completeness", "correctness", "maintainability",
                        "performance", "security", "testability",
                        "documentation"}
                /\ \A d \in DOMAIN a.metrics :
                       a.metrics[d] >= 0 /\ a.metrics[d] <= 100
                /\ a.score =
                       a.metrics.completeness + a.metrics.correctness
                       + a.metrics.maintainability + a.metrics.performance
                       + a.metrics.security + a.metrics.testability
                       + a.metrics.documentation
                /\ a.score >= 0 /\ a.score <= 700

\* an assessment whose random dimensions are not all at the same end
C27_Witness ==
    /\ validation # <<>>
    /\ \E k \in DOMAIN validation[1].solutions :
           LET a == validation[1].solutions[k].assessment
           IN  /\ a.metrics.maintainability = 75
               /\ a.metrics.correctness = 99
               /\ a.score = 100 + 99 + 75 + 80 + 85 + 90 + 85

\* the dimension an improvement note is about
NoteDimension(note) ==
    CASE note = "Add missing implementation components" -> "completeness"
      [] note = "Improve test coverage and quality" -> "testability"
      [] note = "Enhance documentation and examples" -> "documentation"

\* C28: for each of the seven dimensions that is below 0.8 the
\* recommendations hold one improvement note for that dimension, and a
\* dimension at or above 0.8 has no note.
C28_NotePerLowDimension ==
    validation # <<>> =>
        \A k \in DOMAIN validation[1].solutions :
            LET a == validation[1].solutions[k].assessment
                notes(d) == {j \in DOMAIN a.recommendations :
                                NoteDimension(a.recommendations[j]) = d}
            IN  \A d \in DOMAIN a.metrics :
                    Cardinality(notes(d)) = (IF a.metrics[d] < 80 THEN 1 ELSE 0)

\* what a factor contributes, in hundredths: weight (in tenths) times
\* min(value / 10, 1) (in tenths)
Contribution(weight, value) == weight * (IF value < 10 THEN value ELSE 10)

\* C29: the complexity score is the weighted sum of the six factors, each
\* contributing min(value / 10, 1) x weight, within [0, 1]; the tier is low
\* below 0.3, medium below 0.6, high below 0.8 and very-high otherwise, so it
\* is always one of the four.
C29_ScoreAndTier ==
    complexityResult # <<>> =>
        LET score == complexityResult[1].score
            level == complexityResult[1].level
            sum == Contribution(1, issue.textLength)
                   + Contribution(3, issue.technicalTerms)
                   + Contribution(2, issue.codeSnippets)
                   + Contribution(2, issue.stackTraces)
                   + Contribution(1, issue.labels)
                   + Contribution(1, issue.references)
        IN  /\ score = (IF sum < 100 THEN sum ELSE 100)
            /\ score >= 0 /\ score <= 100
            /\ level \in {"low", "medium", "high", "very-high"}
            /\ level = "low" <=> score < 30
            /\ level = "medium" <=> (score >= 30 /\ score < 60)
            /\ level = "high" <=> (score >= 60 /\ score < 80)
            /\ level = "very-high" <=> score >= 80

\* a task with more than ten code snippets and stack traces and a few
\* technical terms: 0.1 + 0.12 + 0.2 + 0.2 = 0.62, high
C29_Witness ==
    /\ complexityResult # <<>>
    /\ issue.textLength = 25
    /\ issue.technicalTerms = 4
    /\ issue.codeSnippets = 25
    /\ issue.stackTraces = 25
    /\ issue.labels = 0
    /\ issue.references = 0
    /\ complexityResult[1] = [score |-> 62, level |-> "high"]

\* C30: the priority is 0.5 plus 0.3 for an urgency keyword, 0.2 for a
\* security keyword, 0.2 for user-impact phrasing and 0.3 for a high-priority
\* label, limited to 1.0; it is never below 0.5 nor above 1.0, and at least
\* 0.8 for a task with an urgency or production keyword.
C30_PriorityBounds ==
    priorityResult # <<>> =>
        LET p == priorityResult[1]
            sum == 50 + (IF issue.critical THEN 30 ELSE 0)
                      + (IF issue.security THEN 20 ELSE 0)
                      + (IF issue.userBug THEN 20 ELSE 0)
                      + (IF issue.highLabel THEN 30 ELSE 0)
        IN  /\ p = (IF sum < 100 THEN sum ELSE 100)
            /\ p >= 50 /\ p <= 100
            /\ issue.critical => p >= 80

\* every indicator is present and the sum of 1.5 is limited to 1.0
C30_Witness ==
    /\ priorityResult = <<100>>
    /\ issue.critical /\ issue.security /\ issue.userBug /\ issue.highLabel

\* the phases of a coordination in the order the claim gives them
PhaseOrder == <<"individual-analysis", "collaboration", "consensus">>

\* the analyses of all agents, in the order of the agents
AllAnalyses == [w \in 1..swarmSize |-> w]

\* C31: the phases of a coordination are recorded in the order
\* individual-analysis, collaboration, consensus.  The collaboration starts
\* only once the analysis of every agent has been collected, every
\* discussion round reads the analyses of all agents, and the consensus is
\* built only once all collaboration rounds are over, from all of them.
C31_PhasesBehindBarriers ==
    /\ Len(phases) <= Len(PhaseOrder)
    /\ \A k \in DOMAIN phases : phases[k].name = PhaseOrder[k]
    /\ (coordPc \in {"collaboration", "consensus", "returned"}
            \/ discussions # <<>>) =>
           /\ \A w \in DOMAIN workerPc : workerPc[w] = "done"
           /\ Len(phases) >= 1
           /\ phases[1].results = AllAnalyses
    /\ \A k \in DOMAIN discussions : discussions[k].analyses = AllAnalyses
    /\ consensusResult # <<>> =>
           /\ Len(discussions) = collaborationRounds(swarmSize)
           /\ Len(phases) >= 2
           /\ phases[2].results.discussions = discussions

\* three agents, two rounds of discussion, all three phases recorded
C31_Witness ==
    /\ coordPc = "returned"
    /\ swarmSize = 3
    /\ Len(discussions) = 2
    /\ Len(phases) = 3

\* the analysis of some agent has thrown
WorkerFailed == \E w \in DOMAIN workerPc : workerPc[w] = "failed"

\* C32: once the analysis of one agent has thrown, no phase is recorded, no
\* discussion is held, no consensus is built and no candidate is
\* synthesized, and the session goes from coordinating to failed.
C32_WorkerFailureFailsSession ==
    /\ [](WorkerFailed =>
             /\ phases = <<>>
             /\ discussions = <<>>
             /\ consensusResult = <<>>
             /\ sessionSolutions = <<>>
             /\ swarmStatus \in {"coordinating", "failed"})
    /\ (WorkerFailed ~> swarmStatus = "failed")

\* one agent has thrown, another has returned, and the session has failed
C32_Witness ==
    /\ WorkerFailed
    /\ \E w \in DOMAIN workerPc : workerPc[w] = "done"
    /\ swarmStatus = "failed"
    /\ coordPc = "thrown"

\* C33: a session whose coordination has returned leaves coordinating only
\* for synthesizing and does so whatever readyForImplementation says; it
\* is never failed by the flag.
C33_GateIsAdvisory ==
    /\ [][(coordPc = "returned" /\ swarmStatus = "coordinating"
              /\ swarmStatus' # swarmStatus) =>
             swarmStatus' = "synthesizing"]_vars
    /\ [](coordPc = "returned" => swarmStatus # "failed")
    /\ \A ready \in BOOLEAN :
           (coordPc = "returned" /\ swarmStatus = "coordinating"
               /\ consensusResult[1].readyForImplementation = ready)
           ~> (swarmStatus = "synthesizing")

\* a session synthesizing although its consensus is not ready
C33_Witness ==
    /\ swarmStatus = "synthesizing"
    /\ coordPc = "returned"
    /\ ~consensusResult[1].readyForImplementation
    /\ ~exceeds(consensusResult[1].overallConsensus, 70)

\* the insights that reached consensus with a confidence above 0.7, each as
\* its discussion and its place in it
StrongInsights ==
    {p \in UNION {{<<d, k>> : k \in DOMAIN discussions[d].insights} :
                     d \in DOMAIN discussions} :
        /\ discussions[p[1]].insights[p[2]].consensus
        /\ discussions[p[1]].insights[p[2]].confidence > 70}

\* the confidences of a set of insights, summed
RECURSIVE ConfidenceSum(_)
ConfidenceSum(places) ==
    IF places = {} THEN 0
    ELSE LET p == CHOOSE q \in places : TRUE
         IN  discussions[p[1]].insights[p[2]].confidence
             + ConfidenceSum(places \ {p})

\* C34: the convergence is the mean confidence of the insights that reached
\* consensus with a confidence above 0.7, and 0.5 when there is none; the
\* readiness reported with it is the boolean convergence > 0.7.
C34_ConvergenceIsMeanOfStrongInsights ==
    consensusResult # <<>> =>
        LET convergence == phases[2].results.convergence
        IN  /\ consensusResult[1].overallConsensus = convergence
            /\ consensusResult[1].readyForImplementation
                   = exceeds(convergence, 70)
            /\ IF StrongInsights = {}
               THEN convergence.sum = 50 * convergence.count
               ELSE convergence.sum * Cardinality(StrongInsights)
                        = ConfidenceSum(StrongInsights) * convergence.count

\* the scores of the first n assessed candidates, summed
RECURSIVE ScoreSum(_, _)
ScoreSum(sols, n) ==
    IF n = 0 THEN 0 ELSE ScoreSum(sols, n - 1) + sols[n].assessment.score

\* C35: the learning stage of a session with learning enabled adds one
\* knowledge record for each assessed candidate, and one pattern with success
\* rate 1.0 when the mean score of the candidates exceeds 0.8 and none
\* otherwise; with learning disabled it changes neither the engine's maps nor
\* the files.  Either way the session goes from learning to completed.
C35_LearningAddsOnePerCandidate ==
    [][(enginePc[LearningSession] = "learning"
            /\ enginePc'[LearningSession] # "learning") =>
          /\ enginePc'[LearningSession] = "completed"
          /\ IF learningEnabled
             THEN LET sols == validation[1].solutions
                      newKnowledge == stateKnowledge'[LearningSession]
                                          \ stateKnowledge[LearningSession]
                      newPatterns == statePatterns'[LearningSession]
                                          \ statePatterns[LearningSession]
                  IN  /\ stateKnowledge[LearningSession]
                             \subseteq stateKnowledge'[LearningSession]
                      /\ statePatterns[LearningSession]
                             \subseteq statePatterns'[LearningSession]
                      /\ Cardinality(newKnowledge) = Len(sols)
                      /\ Len(sessionLearnings'[1].knowledge) = Len(sols)
                      /\ \A k \in DOMAIN sols :
                             sessionLearnings'[1].knowledge[k].pattern = sols[k].approach
                      /\ newKnowledge = idsOf(sessionLearnings'[1].knowledge)
                      /\ newPatterns = idsOf(sessionLearnings'[1].patterns)
                      /\ Cardinality(newPatterns)
                             = (IF ScoreSum(sols, Len(sols)) > 560 * Len(sols)
                                THEN 1 ELSE 0)
                      /\ \A k \in DOMAIN sessionLearnings'[1].patterns :
                             sessionLearnings'[1].patterns[k].successRate = 100
             ELSE /\ sessionLearnings' = <<>>
                  /\ UNCHANGED <<statePatterns, stateKnowledge, patternsFile,
                                 knowledgeFile>>]_vars

\* a completed session that learned three knowledge records and one pattern
\* next to the pattern of an earlier session
C35_Witness ==
    /\ enginePc[LearningSession] = "completed"
    /\ learningEnabled
    /\ Len(sessionLearnings[1].knowledge) = 3
    /\ Len(sessionLearnings[1].patterns) = 1
    /\ statePatterns[LearningSession] = {EarlierPattern, patternId(LearningSession)}
    /\ Cardinality(knowledgeFile) = 3

\* a completed session with learning disabled and its files as they were
C35_WitnessDisabled ==
    /\ enginePc[LearningSession] = "completed"
    /\ ~learningEnabled
    /\ patternsFile = {EarlierPattern}
    /\ sessionLearnings = <<>>

\* C36: the similarity of the task to a stored pattern is never above 0.7 (it
\* is at most a quarter of 1.0, or not a number), so matchPatterns returns no
\* pattern and the session synthesizes exactly one candidate.
C36_NoMatchOneCandidate ==
    /\ \A k \in DOMAIN patternStore :
           LET similarity == calculateSimilarity(matchIssue,
                                                 patternStore[k].signature)
           IN  similarity.nan \/ 4 * similarity.value <= SimilarityOne
    /\ matchResult # <<>> => matchResult[1] = <<>>
    /\ sessionSolutions # <<>> =>
           /\ generateContext.patterns = {}
           /\ Len(sessionSolutions[1]) = 1

\* a task whose four fields all equal those of a stored pattern: the
\* similarity is the largest there is, 0.25, and one candidate is synthesized
C36_Witness ==
    /\ sessionSolutions # <<>>
    /\ Len(sessionSolutions[1]) = 1
    /\ \E k \in DOMAIN patternStore :
           calculateSimilarity(matchIssue, patternStore[k].signature)
               = [nan |-> FALSE, value |-> SimilarityOne \div 4]

\* C37: the pr_created that outputResults writes is true only if a pull
\* request was created; when the branch already exists (HTTP 422) no pull
\* request is reported as created.
C37_PrCreatedOnlyIfCreated ==
    actionsOutput # <<>> =>
        (actionsOutput[1].pr_created =>
            published[1].githubResult.pullRequest = "created")

\* C38: every key of the engine map is a key of the map of active sessions,
\* and the orchestration id of a call of resolveIssue that has settled is a
\* key of neither.
C38_EnginesWithinActiveSessions ==
    /\ engines \subseteq activeSessions
    /\ \A c \in Calls :
           pc[c] = "done" =>
               /\ orchestrationId[c] \notin activeSessions
               /\ orchestrationId[c] \notin engines

\* one call has returned its result and is in neither map while the other
\* call is in both
C38_Witness ==
    \E c, d \in Calls :
        /\ pc[c] = "done"
        /\ outcome[c] = "success"
        /\ orchestrationId[c] \notin activeSessions \cup engines
        /\ pc[d] # "done"
        /\ orchestrationId[d] \in activeSessions \cap engines

\* the order of the states of an orchestration session
OrchestrationOrder == <<"initializing", "executing", "processing", "publishing",
                        "completed">>

\* every change of the status is a step to the next state of the order, or a
\* step from a state before completed to failed
C39_StatusInOrder ==
    [][\A c \in Calls :
          status'[c] # status[c] =>
              \/ status[c] = "none" /\ status'[c] = "initializing"
              \/ \E i \in 1..(Len(OrchestrationOrder) - 1) :
                     /\ status[c] = OrchestrationOrder[i]
                     /\ status'[c] = OrchestrationOrder[i + 1]
              \/ /\ status[c] \in {"initializing", "executing", "processing",
                                   "publishing"}
                 /\ status'[c] = "failed"]_vars

\* when publishing is entered the engine's session is completed and
\* sessions.json holds it as completed
C39_PublishingAfterPersisted ==
    [][\A c \in Calls :
          (status[c] # "publishing" /\ status'[c] = "publishing") =>
              /\ engineStatus[c] = "completed"
              /\ sessionId[c] \in DOMAIN sessionsFile
              /\ sessionsFile[sessionId[c]].status = "completed"]_vars

\* the record of a call is written into results.json when publishToGitHub
\* has settled (a completed record) or when reportErrorToGitHub has settled (a
\* failed record)
C39_RecordAfterAttempt ==
    [][\A c \in Calls :
          (orchestrationId[c] \notin DOMAIN results
               /\ orchestrationId[c] \in DOMAIN results') =>
              \/ /\ pc[c] = "publish" /\ publishCalls[c] = 1
                 /\ results'[orchestrationId[c]].status = "completed"
              \/ /\ pc[c] = "err_report" /\ reportCalls[c] = 1
                 /\ results'[orchestrationId[c]].status = "failed"]_vars

\* C39: the status of an orchestration session moves only along
\* initializing, executing, processing, publishing, completed, or from a
\* state before completed to failed; publishing is entered only after the
\* engine's session has reached completed and has been persisted; and the
\* terminal record is written to the ledger only after the publish attempt
\* or, on failure, the error report attempt has finished.
C39_OrderedLifecycle ==
    /\ C39_StatusInOrder
    /\ C39_PublishingAfterPersisted
    /\ C39_RecordAfterAttempt

====
